---- MODULE Spec2Model ----
(***************************************************************************)
(* Model of the context-prompt tool (src/main.py).                         *)
(*                                                                         *)
(*  - read_text_from_any_file and the read_doc_file_with_* helpers: the    *)
(*    per-extension dispatch and the .doc fallback chain (SpecExtract).    *)
(*  - read_text_files_by_paths: the thread pool over read_single_file      *)
(*    (SpecPool).                                                          *)
(*  - MainWindow with its FileProcessor and SiYuan worker threads and the  *)
(*    queued signals they post to the main thread (SpecIngest).            *)
(*  - search_text_files_recursive as on_folder_selected calls it           *)
(*    (SpecScan).                                                          *)
(*  - the collection: restore at start, add, delete, move, clear, merge    *)
(*    and the save at close (SpecStore).                                   *)
(*                                                                         *)
(* Strings are sequences of symbols.  A diagnostic such as                 *)
(* "[antiword <convert failed>: ...]" is                                   *)
(* <<"[", "antiword_convert_failed", "]">>,                                *)
(* so str.startswith is a real prefix comparison.                          *)
(***************************************************************************)
EXTENDS Integers, Sequences, FiniteSets, TLC

VARIABLES
    mods,       \* import-time globals: WIN32_AVAILABLE, SUBPROCESS_AVAILABLE, docx, openpyxl, xlrd
    xfile,      \* read_text_from_any_file: the file named by its argument
    xpc,        \* read_text_from_any_file: position ("idle", "call", a .doc method, "returned", "raised")
    xtried,     \* .doc chain: the methods attempted so far, each with its output
    xret,       \* read_text_from_any_file: the returned string (NoRet before the return)
    rpc,        \* read_text_files_by_paths: "idle", "running" (inside the with block), "returned"
    file_paths, \* read_text_files_by_paths: its argument
    futures,    \* read_text_files_by_paths: per submitted task its state and result
    yielded,    \* read_text_files_by_paths: the tasks as_completed has yielded so far
    results,    \* read_text_files_by_paths: the dict it returns
    processing_files, \* MainWindow.processing_files
    file_processor,   \* MainWindow.file_processor: 0 (None) or the index in procs of the latest FileProcessor
    procs,      \* the FileProcessor objects created so far, each with the position of its thread
    siyuan_helper,    \* MainWindow.siyuan_helper: whether api_base_url and api_token are set
    sy,         \* the remote-fetch worker threads started so far
    evq,        \* the main thread's queue of posted events (queued signals and invokeMethod calls)
    items,      \* MainWindow.items
    list,       \* MainWindow.list: the UserRole data of each row, in row order
    cfg,        \* the configuration document config.json
    progress,   \* the progress bar: <<value, maximum>>
    scan,       \* search_text_files_recursive as on_folder_selected calls it: its position and locals
    win,        \* the MainWindow: whether the program was started, whether the window is open, the ids uuid4 has handed out, saved_manager._data, the clock of now_label
    merged      \* on_merge_and_copy: merged_lines and merged_text of the call, when it was the last handler to run

xvars == <<xfile, xpc, xtried, xret>>

rvars == <<rpc, file_paths, futures, yielded, results>>

avars == <<processing_files, file_processor, procs, siyuan_helper, sy, evq, items, list, cfg, progress>>

vars == <<mods, xvars, rvars, avars, scan, win, merged>>

----------------------------------------------------------------------------
(* Strings *)

StartsWith(s, p) == Len(s) >= Len(p) /\ SubSeq(s, 1, Len(p)) = p

EMPTY == <<>>
TEXT  == <<"text">>
BLANK == <<" ">>

\* str.strip() on the strings of the model
Strip(s) == IF s = BLANK THEN EMPTY ELSE s

NoRet == <<"<no return>">>

\* a string that begins with a bracketed diagnostic
IsDiagnostic(s) == StartsWith(s, <<"[">>)

----------------------------------------------------------------------------
(* The .doc helpers: what each returns for each outcome of its library or  *)
(* subprocess call.                                                        *)

Methods == <<"win32com", "antiword", "catdoc", "unoconv", "textract", "python-docx">>

Win32Outcomes == {"text", "blank", "exception"}

read_doc_file_with_win32com(o) ==
    CASE o = "text"      -> Strip(TEXT)
      [] o = "blank"     -> Strip(BLANK)
      [] o = "exception" -> <<"[", "win32com_read_failed", "]">>

ConverterOutcomes == {"rc0_text", "rc0_empty", "rc_nonzero", "FileNotFoundError",
                      "TimeoutExpired", "Exception"}

read_doc_file_with_antiword(o) ==
    CASE o = "rc0_text"          -> TEXT
      [] o = "rc0_empty"         -> EMPTY
      [] o = "rc_nonzero"        -> <<"[", "antiword_convert_failed", "]">>
      [] o = "FileNotFoundError" -> <<"[", "antiword_not_found", "]">>
      [] o = "TimeoutExpired"    -> <<"[", "antiword_timeout", "]">>
      [] o = "Exception"         -> <<"[", "antiword_exception", "]">>

read_doc_file_with_catdoc(o) ==
    CASE o = "rc0_text"          -> TEXT
      [] o = "rc0_empty"         -> EMPTY
      [] o = "rc_nonzero"        -> <<"[", "catdoc_convert_failed", "]">>
      [] o = "FileNotFoundError" -> <<"[", "catdoc_not_found", "]">>
      [] o = "TimeoutExpired"    -> <<"[", "catdoc_timeout", "]">>
      [] o = "Exception"         -> <<"[", "catdoc_exception", "]">>

UnoconvOutcomes == ConverterOutcomes \cup {"version_nonzero"}

read_doc_file_with_unoconv(o) ==
    CASE o = "version_nonzero"   -> <<"[", "unoconv_unavailable", "]">>
      [] o = "rc0_text"          -> TEXT
      [] o = "rc0_empty"         -> EMPTY
      [] o = "rc_nonzero"        -> <<"[", "unoconv_convert_failed", "]">>
      [] o = "TimeoutExpired"    -> <<"[", "unoconv_timeout", "]">>
      [] o = "FileNotFoundError" -> <<"[", "unoconv_not_found", "]">>
      [] o = "Exception"         -> <<"[", "unoconv_exception", "]">>

TextractOutcomes == {"text", "empty", "ImportError", "Exception"}

read_doc_file_with_textract(o) ==
    CASE o = "text"        -> TEXT
      [] o = "empty"       -> EMPTY
      [] o = "ImportError" -> <<"[", "textract_unavailable", "]">>
      [] o = "Exception"   -> <<"[", "textract_convert_failed", "]">>

\* method 6: docx.Document(path) on the .doc file; "raise" stands for the
\* exception the inner try swallows
DocxOutcomes == {"text", "blank", "empty", "exception"}

DocxRaise == <<"<raise>">>

read_doc_with_python_docx(o) ==
    CASE o = "text"      -> TEXT
      [] o = "blank"     -> BLANK
      [] o = "empty"     -> EMPTY
      [] o = "exception" -> DocxRaise

Outcomes(m) ==
    CASE m = "win32com"    -> Win32Outcomes
      [] m = "antiword"    -> ConverterOutcomes
      [] m = "catdoc"      -> ConverterOutcomes
      [] m = "unoconv"     -> UnoconvOutcomes
      [] m = "textract"    -> TextractOutcomes
      [] m = "python-docx" -> DocxOutcomes

\* the output of method m when its call ends with outcome o
Attempt(m, o) ==
    CASE m = "win32com"    -> read_doc_file_with_win32com(o)
      [] m = "antiword"    -> read_doc_file_with_antiword(o)
      [] m = "catdoc"      -> read_doc_file_with_catdoc(o)
      [] m = "unoconv"     -> read_doc_file_with_unoconv(o)
      [] m = "textract"    -> read_doc_file_with_textract(o)
      [] m = "python-docx" -> read_doc_with_python_docx(o)

\* the guard of each method: "if WIN32_AVAILABLE:", "if SUBPROCESS_AVAILABLE:",
\* none for textract, "if docx is not None:"
Available(m, g) ==
    CASE m = "win32com"    -> g.WIN32_AVAILABLE
      [] m = "antiword"    -> g.SUBPROCESS_AVAILABLE
      [] m = "catdoc"      -> g.SUBPROCESS_AVAILABLE
      [] m = "unoconv"     -> g.SUBPROCESS_AVAILABLE
      [] m = "textract"    -> TRUE
      [] m = "python-docx" -> g.docx

\* the prefixes each method's "if not content.startswith(...)" test names
RejectedPrefixes(m) ==
    CASE m = "win32com"    -> {<<"[", "win32com_read_failed">>}
      [] m = "antiword"    -> {<<"[", "antiword_not_found">>, <<"[", "antiword_convert_failed">>}
      [] m = "catdoc"      -> {<<"[", "catdoc_not_found">>, <<"[", "catdoc_convert_failed">>}
      [] m = "unoconv"     -> {<<"[", "unoconv_not_found">>, <<"[", "unoconv_convert_failed">>}
      [] m = "textract"    -> {<<"[", "textract_unavailable">>, <<"[", "textract_convert_failed">>}
      [] m = "python-docx" -> {}

\* whether the chain returns content as the result of method m
Accepts(m, content) ==
    IF m = "python-docx"
    THEN content # DocxRaise /\ Strip(content) # EMPTY
    ELSE \A p \in RejectedPrefixes(m) : ~StartsWith(content, p)

install_guide == <<"[", "doc_read_failed", "]", "install guide">>

----------------------------------------------------------------------------
(* Files.  read: what opening and parsing the file does ("OSError": the    *)
(* file is missing or unreadable; "malformed": it opens but its bytes are  *)
(* not what the extension promises).                                       *)

Exts == {".csv", ".tsv", ".doc", ".docx", ".xlsx", ".xls", ".txt"}

ReadStates == {"ok", "OSError", "malformed"}

Contents == {TEXT, EMPTY}

Files == [ext : Exts, read : ReadStates, content : Contents]

Globals == [WIN32_AVAILABLE : BOOLEAN, SUBPROCESS_AVAILABLE : BOOLEAN,
            docx : BOOLEAN, openpyxl : BOOLEAN, xlrd : BOOLEAN]

\* the outcomes a method's call can have on file f: on a missing or
\* unreadable file only its failures (an exception, a non-zero exit status,
\* a command or module that is not installed, a timeout)
FailureOutcomes == {"exception", "rc_nonzero", "FileNotFoundError", "TimeoutExpired",
                    "Exception", "version_nonzero", "ImportError"}

PossibleOutcomes(m, f) ==
    IF f.read = "OSError"
    THEN Outcomes(m) \cap FailureOutcomes
    ELSE Outcomes(m)

----------------------------------------------------------------------------
(* read_text_from_any_file, one step per branch and per .doc method        *)

\* mutants of NextPc: the chain skips catdoc; the chain gives up after textract
NextPc_SkipsCatdoc(k) ==
    IF k = 2 THEN Methods[4]
    ELSE IF k < Len(Methods) THEN Methods[k + 1] ELSE "guide"

NextPc_GivesUpEarly(k) == IF k < Len(Methods) - 1 THEN Methods[k + 1] ELSE "guide"

\* the chain falls through from method k to the next one, and from the
\* last one to the installation guide
NextPc(k) == IF k < Len(Methods) THEN Methods[k + 1] ELSE "guide"

X_Call ==
    /\ xpc \in {"idle", "returned", "raised"}
    /\ \E f \in Files : xfile' = f
    /\ xpc' = "call"
    /\ xtried' = <<>>
    /\ xret' = NoRet
    /\ UNCHANGED <<mods, win, merged, scan, rvars, avars>>

Returned(str) == [raised |-> FALSE, ret |-> str]
Raised == [raised |-> TRUE, ret |-> NoRet]

\* if ext == ".csv" or ext == ".tsv": open() and csv.reader are not inside a try
CsvBranch(f) == IF f.read = "ok" THEN Returned(f.content) ELSE Raised

X_Csv ==
    /\ xpc = "call"
    /\ xfile.ext \in {".csv", ".tsv"}
    /\ LET r == CsvBranch(xfile) IN
       IF r.raised
       THEN xpc' = "raised" /\ xret' = xret
       ELSE xpc' = "returned" /\ xret' = r.ret
    /\ UNCHANGED <<mods, win, merged, scan, xfile, xtried, rvars, avars>>

X_DocEnter ==
    /\ xpc = "call"
    /\ xfile.ext = ".doc"
    /\ xpc' = Methods[1]
    /\ UNCHANGED <<mods, win, merged, scan, xfile, xtried, xret, rvars, avars>>

TryMethod(k) ==
    LET m == Methods[k] IN
    /\ xpc = m
    /\ IF Available(m, mods)
       THEN \E o \in PossibleOutcomes(m, xfile) :
              LET content == Attempt(m, o) IN
              /\ xtried' = Append(xtried, [m |-> m, o |-> o, out |-> content])
              /\ IF Accepts(m, content)
                 THEN xpc' = "returned" /\ xret' = content
                 ELSE xpc' = NextPc(k) /\ xret' = xret
       ELSE /\ xtried' = xtried
            /\ xpc' = NextPc(k)
            /\ xret' = xret
    /\ UNCHANGED <<mods, win, merged, scan, xfile, rvars, avars>>

X_Win32com   == TryMethod(1)
X_Antiword   == TryMethod(2)
X_Catdoc     == TryMethod(3)
X_Unoconv    == TryMethod(4)
X_Textract   == TryMethod(5)
X_PythonDocx == TryMethod(6)

X_Guide ==
    /\ xpc = "guide"
    /\ xpc' = "returned"
    /\ xret' = install_guide
    /\ UNCHANGED <<mods, win, merged, scan, xfile, xtried, rvars, avars>>

\* .docx, .xlsx, .xls: "if <module> is None: return unsupported", then a
\* try whose except returns a diagnostic
OfficeResult(f, present, tag) ==
    IF ~present THEN Returned(<<"[", "unsupported_format", tag, "]">>)
    ELSE IF f.read = "ok" THEN Returned(f.content)
    ELSE Returned(<<"[", "read_office_failed", tag, "]">>)

OfficeBranch(ext, present) ==
    /\ xpc = "call"
    /\ xfile.ext = ext
    /\ xpc' = "returned"
    /\ xret' = OfficeResult(xfile, present, ext).ret
    /\ UNCHANGED <<mods, win, merged, scan, xfile, xtried, rvars, avars>>

X_Docx == OfficeBranch(".docx", mods.docx)
X_Xlsx == OfficeBranch(".xlsx", mods.openpyxl)
X_Xls  == OfficeBranch(".xls", mods.xlrd)

\* every other extension: open(..., errors="ignore") inside try/except Exception
DefaultBranch(f) ==
    IF f.read = "OSError"
    THEN Returned(<<"[", "read_file_failed", "path", "]">>)
    ELSE Returned(f.content)

X_Default ==
    /\ xpc = "call"
    /\ xfile.ext \notin {".csv", ".tsv", ".doc", ".docx", ".xlsx", ".xls"}
    /\ xpc' = "returned"
    /\ xret' = DefaultBranch(xfile).ret
    /\ UNCHANGED <<mods, win, merged, scan, xfile, xtried, rvars, avars>>

ExtractIdle ==
    /\ xfile = [ext |-> ".txt", read |-> "ok", content |-> EMPTY]
    /\ xpc = "idle"
    /\ xtried = <<>>
    /\ xret = NoRet

PoolIdle ==
    /\ rpc = "idle"
    /\ file_paths = <<>>
    /\ futures = <<>>
    /\ yielded = {}
    /\ results = <<>>

\* search_text_files_recursive was not called yet
NoTree == [dirs |-> <<>>]

ScanIdle ==
    scan = [pc |-> "idle", tree |-> NoTree, todo |-> <<>>, d |-> 0, k |-> 0,
            result |-> <<>>, total_size |-> 0, file_count |-> 0, visited |-> {}]

\* SavedPromptsManager._data as __init__ sets it
NoPrompts == [k \in {"manual_prompts"} |-> <<>>]

\* no context menu of the list is open, no item taken out of it
NoMenu == [pc |-> "idle", item |-> <<>>, selected |-> {}, held |-> <<>>, at |-> 0]

\* the last handler to run was not on_merge_and_copy
NoMerge == [merged_lines |-> <<>>, text |-> <<>>, clipboard |-> FALSE]

\* the window after MainWindow.__init__ on a first start: _ensure_file has
\* written {"manual_prompts": []}, load_list_data found no list_items
AppIdle ==
    /\ processing_files = FALSE
    /\ file_processor = 0
    /\ procs = <<>>
    /\ sy = <<>>
    /\ evq = <<>>
    /\ items = <<>>
    /\ list = <<>>
    /\ cfg = [state |-> "ok", doc |-> [k \in {"manual_prompts"} |-> <<>>]]
    /\ progress = <<0, 100>>
    /\ win = [started |-> TRUE, open |-> TRUE, uuid |-> 0, _data |-> NoPrompts, now |-> 0,
              menu |-> NoMenu]
    /\ merged = NoMerge

InitExtract ==
    /\ mods \in Globals
    /\ ExtractIdle
    /\ PoolIdle
    /\ AppIdle
    /\ ScanIdle
    /\ siyuan_helper = FALSE

NextExtract ==
    \/ X_Call
    \/ X_Csv
    \/ X_DocEnter
    \/ X_Win32com
    \/ X_Antiword
    \/ X_Catdoc
    \/ X_Unoconv
    \/ X_Textract
    \/ X_PythonDocx
    \/ X_Guide
    \/ X_Docx
    \/ X_Xlsx
    \/ X_Xls
    \/ X_Default

SpecExtract == InitExtract /\ [][NextExtract]_vars

----------------------------------------------------------------------------
(* read_text_from_any_file as a function of the file, for its callers.  A  *)
(* file of the file system carries, besides ext/read/content, what stat    *)
(* says of it (stat, size) and, for a .doc file, the outcome of each       *)
(* method's call on it (doc).                                              *)

RECURSIVE DocChainFrom(_, _, _)
DocChainFrom(pc, f, g) ==
    IF pc = "guide" THEN install_guide
    ELSE LET k == CHOOSE i \in 1..Len(Methods) : Methods[i] = pc
             content == Attempt(pc, f.doc[pc])
         IN  IF Available(pc, g) /\ Accepts(pc, content)
             THEN content
             ELSE \* the chain goes on with the one method NextPc(k) names
                  CHOOSE ret \in {DocChainFrom(next, f, g) : next \in {NextPc(k)}} : TRUE

read_text_from_any_file(f, g) ==
    CASE f.ext \in {".csv", ".tsv"} -> CsvBranch(f)
      [] f.ext = ".doc"  -> Returned(DocChainFrom(Methods[1], f, g))
      [] f.ext = ".docx" -> OfficeResult(f, g.docx, ".docx")
      [] f.ext = ".xlsx" -> OfficeResult(f, g.openpyxl, ".xlsx")
      [] f.ext = ".xls"  -> OfficeResult(f, g.xlrd, ".xls")
      [] OTHER           -> DefaultBranch(f)

----------------------------------------------------------------------------
(* The file system.  A path is a number; the file it names is fixed by the *)
(* catalogue, which holds one file of each kind the readers distinguish.   *)

FILE_SIZE_LIMIT == 20971520

MAX_CONCURRENT_FILES == 5

MethodSet == {Methods[k] : k \in 1..Len(Methods)}

\* a machine with none of the .doc converters installed
NothingInstalled ==
    [m \in MethodSet |->
        CASE m = "win32com"    -> "exception"
          [] m = "antiword"    -> "FileNotFoundError"
          [] m = "catdoc"      -> "FileNotFoundError"
          [] m = "unoconv"     -> "FileNotFoundError"
          [] m = "textract"    -> "ImportError"
          [] m = "python-docx" -> "exception"]

Catalogue ==
    << [ext |-> ".txt", stat |-> "ok",      size |-> FILE_SIZE_LIMIT,     read |-> "ok",      content |-> TEXT,  doc |-> NothingInstalled],
       [ext |-> ".txt", stat |-> "OSError", size |-> 0,                   read |-> "OSError", content |-> EMPTY, doc |-> NothingInstalled],
       [ext |-> ".txt", stat |-> "ok",      size |-> FILE_SIZE_LIMIT + 1, read |-> "ok",      content |-> TEXT,  doc |-> NothingInstalled],
       [ext |-> ".csv", stat |-> "ok",      size |-> 10,                  read |-> "OSError", content |-> EMPTY, doc |-> NothingInstalled],
       [ext |-> ".doc", stat |-> "ok",      size |-> 10,                  read |-> "ok",      content |-> TEXT,  doc |-> NothingInstalled] >>

FS(path) == Catalogue[((path - 1) % Len(Catalogue)) + 1]

basename(path) == ToString(path)

----------------------------------------------------------------------------
(* read_text_files_by_paths: a pool of MAX_CONCURRENT_FILES threads runs   *)
(* read_single_file on every path; as_completed yields the finished tasks  *)
(* in completion order and each result is stored under its path.           *)

\* mutant of TooLarge: a file of exactly FILE_SIZE_LIMIT bytes is refused
TooLarge_Inclusive(size) == size >= FILE_SIZE_LIMIT

\* os.path.getsize(fp) > FILE_SIZE_LIMIT
TooLarge(size) == size > FILE_SIZE_LIMIT

\* read_single_file(fp): the tuple it returns; extracted records whether it
\* called read_text_from_any_file
read_single_file(fp, g) ==
    LET f == FS(fp) IN
    IF f.stat # "ok"
    THEN [fp |-> fp, size |-> 0, extracted |-> FALSE,
          content |-> <<"[", "read_failed", basename(fp), "]", "OSError">>]
    ELSE IF TooLarge(f.size)
    THEN [fp |-> fp, size |-> f.size, extracted |-> FALSE,
          content |-> <<"[", "file_too_large_not_read", basename(fp), "]">>]
    ELSE LET r == read_text_from_any_file(f, g) IN
         IF r.raised
         THEN [fp |-> fp, size |-> 0, extracted |-> TRUE,
               content |-> <<"[", "read_failed", basename(fp), "]", "OSError">>]
         ELSE [fp |-> fp, size |-> f.size, extracted |-> TRUE, content |-> r.ret]

NoResult == [fp |-> 0, size |-> 0, extracted |-> FALSE, content |-> NoRet]

\* the lists of paths the function is called with: k paths, all distinct
\* (d = 0) or with the last one repeating the d-th
PathLists(maxlen) ==
    UNION { { [i \in 1..k |-> IF i = k /\ d > 0 THEN d ELSE i] : d \in 0..(k - 1) }
            : k \in 0..maxlen }

MaxPoolPaths == 6

Tasks == 1..Len(futures)

Running == {i \in Tasks : futures[i].state = "running"}

\* mutant of DictSet: the dictionary keeps only the entry stored last
DictSet_KeepsLast(d, key, value) == [k \in {key} |-> value]

\* results[fp] = (content, size)
DictSet(d, key, value) == [k \in (DOMAIN d) \cup {key} |-> IF k = key THEN value ELSE d[k]]

\* executor.submit for every path, in list order
R_Call ==
    /\ rpc \in {"idle", "returned"}
    /\ \E paths \in PathLists(MaxPoolPaths) :
          /\ file_paths' = paths
          /\ futures' = [i \in 1..Len(paths) |-> [state |-> "pending", result |-> NoResult]]
    /\ yielded' = {}
    /\ results' = <<>>
    /\ rpc' = "running"
    /\ UNCHANGED <<mods, win, merged, scan, xvars, avars>>

\* a free thread of the pool takes the oldest pending task
R_Start(i) ==
    /\ rpc = "running"
    /\ futures[i].state = "pending"
    /\ \A j \in 1..(i - 1) : futures[j].state # "pending"
    /\ Cardinality(Running) < MAX_CONCURRENT_FILES
    /\ futures' = [futures EXCEPT ![i].state = "running"]
    /\ UNCHANGED <<mods, win, merged, scan, xvars, rpc, file_paths, yielded, results, avars>>

\* a running task ends: read_single_file returns
R_Finish(i) ==
    /\ rpc = "running"
    /\ futures[i].state = "running"
    /\ futures' = [futures EXCEPT ![i] = [state |-> "finished",
                                          result |-> read_single_file(file_paths[i], mods)]]
    /\ UNCHANGED <<mods, win, merged, scan, xvars, rpc, file_paths, yielded, results, avars>>

\* for future in as_completed(...): fp, size, content = future.result();
\* results[fp] = (content, size)
R_Yield(i) ==
    /\ rpc = "running"
    /\ futures[i].state = "finished"
    /\ i \notin yielded
    /\ yielded' = yielded \cup {i}
    /\ LET t == futures[i].result IN
       results' = DictSet(results, t.fp, [content |-> t.content, size |-> t.size])
    /\ UNCHANGED <<mods, win, merged, scan, xvars, rpc, file_paths, futures, avars>>

\* the loop ends when every future was yielded; return results
R_Return ==
    /\ rpc = "running"
    /\ yielded = Tasks
    /\ rpc' = "returned"
    /\ UNCHANGED <<mods, win, merged, scan, xvars, file_paths, futures, yielded, results, avars>>

----------------------------------------------------------------------------
(* DataItem                                                                *)

\* uuid4().hex: a token no other item has; here the place the item was made
NewId(src, batch, n) == [src |-> src, batch |-> batch, n |-> n]

DataItem(kind, payload, id) == [kind |-> kind, payload |-> payload, _id |-> id]

to_dict(item) == [kind |-> item.kind, payload |-> item.payload, _id |-> item._id]

\* dict.get(k, default)
Get(d, k, default) == IF k \in DOMAIN d THEN d[k] ELSE default

\* mutant of from_dict: the item is built with the dataclass default of _id,
\* a new uuid4
from_dict_NewId(d, fresh) ==
    IF {"kind", "payload", "_id"} \subseteq DOMAIN d
    THEN [ok |-> TRUE, item |-> DataItem(d.kind, d.payload, fresh)]
    ELSE [ok |-> FALSE]

\* DataItem.from_dict: d["kind"], d["payload"], d["_id"]; a missing key
\* raises KeyError (ok is FALSE).  fresh is the uuid4 a default would draw.
from_dict(d, fresh) ==
    IF {"kind", "payload", "_id"} \subseteq DOMAIN d
    THEN [ok |-> TRUE, item |-> DataItem(d.kind, d.payload, d._id)]
    ELSE [ok |-> FALSE]

\* DataItem.display_label: the label, or ok FALSE where it raises
\* ("".splitlines()[0] for a manual item whose stripped text is empty)
display_label(item) ==
    CASE item.kind = "manual" ->
           LET text == Strip(Get(item.payload, "text", EMPTY)) IN
           IF text = EMPTY THEN [ok |-> FALSE]
           ELSE [ok |-> TRUE, label |-> <<"manual:">> \o text]
      [] item.kind = "text_file" ->
           [ok |-> TRUE,
            label |-> <<"text_file:",
                        IF "file_path" \in DOMAIN item.payload
                        THEN basename(item.payload.file_path) ELSE "file",
                        ToString(Get(item.payload, "size", 0))>>]
      [] item.kind \in {"siyuan_id", "siyuan_multi_id"} ->
           [ok |-> TRUE,
            label |-> <<item.kind>> \o Get(item.payload, "title", <<"untitled">>)]
      [] item.kind = "folder" ->
           [ok |-> TRUE,
            label |-> <<"folder:", ToString(Len(Get(item.payload, "files", <<>>)))>>]
      [] OTHER -> [ok |-> TRUE, label |-> <<"unknown_kind:", item.kind>>]

\* json.dump of a dict: the object as its set of key/value members, the
\* payload object nested in it
json_dump_object(d) ==
    { <<k, IF k = "payload"
           THEN { <<f, d[k][f]>> : f \in DOMAIN d[k] }
           ELSE d[k]>> : k \in DOMAIN d }

\* json.load of an object
json_load_members(o) ==
    [k \in { m[1] : m \in o } |-> (CHOOSE m \in o : m[1] = k)[2]]

json_load_object(o) ==
    LET d == json_load_members(o) IN
    [k \in DOMAIN d |-> IF k = "payload" THEN json_load_members(d[k]) ELSE d[k]]

\* json.dump and json.load of the list under "list_items"
json_dump(rows) == [i \in DOMAIN rows |-> json_dump_object(rows[i])]

json_load(text) == [i \in DOMAIN text |-> json_load_object(text[i])]

guess_display_name_from_content(content) ==
    IF Strip(content) = EMPTY THEN EMPTY ELSE content

----------------------------------------------------------------------------
(* FileProcessor: process_files runs in a thread of its own; its signals   *)
(* are delivered to the window through the main thread's event queue.      *)

\* the number of paths and remote ids submitted in one run, over all batches
MaxSubmitted == 2

\* the lists of paths dropped on the window: up to maxlen consecutive paths
\* of the catalogue, or none
DropLists(maxlen) ==
    {<<>>} \cup { [i \in 1..k |-> ((s + i - 2) % Len(Catalogue)) + 1] :
                      s \in 1..Len(Catalogue), k \in 1..maxlen }

NewFileProcessor(paths) ==
    [file_paths |-> paths, _cancelled |-> FALSE, pc |-> "check", idx |-> 1,
     extracted |-> {}, emitted |-> <<>>, finished |-> 0]

\* mutant of Post: the events are put at the head of the queue
Post_AtHead(q, events) == events \o q

Post(q, events) == q \o events

\* the try body from "display_name = None" on: the item and the two signals
EmitItem(b, w, content, size) ==
    LET path == w.file_paths[w.idx]
        guess == IF /\ ~StartsWith(content, <<"[", "file_too_large_not_read">>)
                    /\ ~StartsWith(content, <<"[", "read_failed">>)
                 THEN guess_display_name_from_content(content)
                 ELSE EMPTY
        payload == [file_path |-> path, content |-> content, size |-> size,
                    display_name |-> IF guess # EMPTY THEN guess ELSE <<basename(path)>>]
        item == DataItem("text_file", payload, NewId("file", b, w.idx))
    IN  /\ evq' = Post(evq, << [sig |-> "file_processed", item |-> item],
                               [sig |-> "progress_updated", cur |-> w.idx,
                                total |-> Len(w.file_paths)] >>)
        /\ procs' = [procs EXCEPT ![b] = [w EXCEPT !.pc = "check", !.idx = w.idx + 1,
                                                  !.emitted = Append(w.emitted, item)]]

\* mutant of EmitError: the except branch ends the loop
EmitError_AbortsBatch(b, w) ==
    LET path == w.file_paths[w.idx]
        payload == [file_path |-> path, content |-> <<"[", "error_processing_file", "]">>,
                    size |-> 0, display_name |-> <<basename(path)>>]
        item == DataItem("text_file", payload, NewId("file", b, w.idx))
    IN  /\ evq' = Post(evq, << [sig |-> "file_processed", item |-> item] >>)
        /\ procs' = [procs EXCEPT ![b] = [w EXCEPT !.pc = "check",
                                                  !.idx = Len(w.file_paths) + 1,
                                                  !.emitted = Append(w.emitted, item)]]

\* except Exception as e: the error item, file_processed only
EmitError(b, w) ==
    LET path == w.file_paths[w.idx]
        payload == [file_path |-> path, content |-> <<"[", "error_processing_file", "]">>,
                    size |-> 0, display_name |-> <<basename(path)>>]
        item == DataItem("text_file", payload, NewId("file", b, w.idx))
    IN  /\ evq' = Post(evq, << [sig |-> "file_processed", item |-> item] >>)
        /\ procs' = [procs EXCEPT ![b] = [w EXCEPT !.pc = "check", !.idx = w.idx + 1,
                                                  !.emitted = Append(w.emitted, item)]]

\* mutant of W_Check: the loop does not look at _cancelled
W_Check_IgnoresCancel(b) ==
    LET w == procs[b] IN
    /\ w.pc = "check"
    /\ IF w.idx > Len(w.file_paths)
       THEN /\ procs' = [procs EXCEPT ![b] = [w EXCEPT !.pc = "done", !.finished = w.finished + 1]]
            /\ evq' = Post(evq, << [sig |-> "finished", b |-> b] >>)
       ELSE /\ procs' = [procs EXCEPT ![b].pc = "start"]
            /\ evq' = evq
    /\ UNCHANGED <<mods, win, merged, scan, xvars, rvars, processing_files, file_processor, siyuan_helper,
                   sy, items, list, cfg, progress>>

\* mutant of W_Check: a cancelled worker leaves the loop and returns
\* without emitting finished
W_Check_SilentOnCancel(b) ==
    LET w == procs[b] IN
    /\ w.pc = "check"
    /\ IF w._cancelled
       THEN /\ procs' = [procs EXCEPT ![b] = [w EXCEPT !.pc = "done"]]
            /\ evq' = evq
       ELSE IF w.idx > Len(w.file_paths)
       THEN /\ procs' = [procs EXCEPT ![b] = [w EXCEPT !.pc = "done", !.finished = w.finished + 1]]
            /\ evq' = Post(evq, << [sig |-> "finished", b |-> b] >>)
       ELSE /\ procs' = [procs EXCEPT ![b].pc = "start"]
            /\ evq' = evq
    /\ UNCHANGED <<mods, win, merged, scan, xvars, rvars, processing_files, file_processor, siyuan_helper,
                   sy, items, list, cfg, progress>>

\* the head of the loop: the next path, "if self._cancelled: break"; after
\* the loop, self.finished.emit()
W_Check(b) ==
    LET w == procs[b] IN
    /\ w.pc = "check"
    /\ IF w.idx > Len(w.file_paths) \/ w._cancelled
       THEN /\ procs' = [procs EXCEPT ![b] = [w EXCEPT !.pc = "done", !.finished = w.finished + 1]]
            /\ evq' = Post(evq, << [sig |-> "finished", b |-> b] >>)
       ELSE /\ procs' = [procs EXCEPT ![b].pc = "start"]
            /\ evq' = evq
    /\ UNCHANGED <<mods, win, merged, scan, xvars, rvars, processing_files, file_processor, siyuan_helper,
                   sy, items, list, cfg, progress>>

\* os.path.getsize, the size test, and the call of read_text_from_any_file
W_Start(b) ==
    LET w == procs[b]
        f == FS(w.file_paths[w.idx])
    IN
    /\ w.pc = "start"
    /\ IF f.stat # "ok"
       THEN EmitError(b, w)
       ELSE IF TooLarge(f.size)
       THEN EmitItem(b, w, <<"[", "file_too_large_not_read", basename(w.file_paths[w.idx]), "]">>,
                     f.size)
       ELSE /\ procs' = [procs EXCEPT ![b] = [w EXCEPT !.pc = "extract",
                                                      !.extracted = w.extracted \cup {w.idx}]]
            /\ evq' = evq
    /\ UNCHANGED <<mods, win, merged, scan, xvars, rvars, processing_files, file_processor, siyuan_helper,
                   sy, items, list, cfg, progress>>

\* read_text_from_any_file returns or raises
W_Complete(b) ==
    LET w == procs[b]
        f == FS(w.file_paths[w.idx])
        r == read_text_from_any_file(f, mods)
    IN
    /\ w.pc = "extract"
    /\ IF r.raised
       THEN EmitError(b, w)
       ELSE EmitItem(b, w, r.ret, f.size)
    /\ UNCHANGED <<mods, win, merged, scan, xvars, rvars, processing_files, file_processor, siyuan_helper,
                   sy, items, list, cfg, progress>>

----------------------------------------------------------------------------
(* The remote-fetch worker of _fetch_siyuan_ids_blocking                   *)

IdLists(maxlen) == { [i \in 1..k |-> i] : k \in 1..maxlen }

\* what the HTTP exchange of get_document can end in
FetchOutcomes == {"failure", "text", "blank"}

NoneNone == [title |-> EMPTY, content |-> EMPTY]

\* SiYuanHelper.get_document: (None, None), or (hPath or doc_id, content)
get_document(configured, o) ==
    IF ~configured \/ o = "failure" THEN NoneNone
    ELSE [title |-> <<"hPath">>, content |-> IF o = "text" THEN TEXT ELSE BLANK]

S_Fetch(r) ==
    /\ sy[r].pc = "loop"
    /\ sy' = [sy EXCEPT ![r].pc = "fetching"]
    /\ UNCHANGED <<mods, win, merged, scan, xvars, rvars, processing_files, file_processor, procs,
                   siyuan_helper, evq, items, list, cfg, progress>>

\* get_document returns; the item is posted to the main thread, then the
\* progress; after the last id the closing progress
S_Return(r) ==
    LET w == sy[r]
        total == Len(w.ids)
    IN
    /\ w.pc = "fetching"
    /\ \E o \in FetchOutcomes :
          LET got == get_document(siyuan_helper, o)
              payload == IF Strip(got.content) # EMPTY
                         THEN [id |-> w.ids[w.idx], title |-> got.title, content |-> got.content]
                         ELSE [id |-> w.ids[w.idx], title |-> <<"not fetched">>,
                               content |-> <<"[", "content_not_fetched", "]">>]
              item == DataItem("siyuan_id", payload, NewId("remote", r, w.idx))
              posted == << [sig |-> "_append_item", item |-> item],
                           [sig |-> "_set_progress", cur |-> w.idx, total |-> total] >>
          IN  /\ evq' = Post(evq, IF w.idx = total
                                  THEN Append(posted, [sig |-> "_set_progress",
                                                       cur |-> total, total |-> total])
                                  ELSE posted)
              /\ sy' = [sy EXCEPT ![r] = [w EXCEPT !.pc = IF w.idx = total THEN "done" ELSE "loop",
                                                   !.idx = w.idx + 1,
                                                   !.appended = Append(w.appended, item)]]
    /\ UNCHANGED <<mods, win, merged, scan, xvars, rvars, processing_files, file_processor, procs,
                   siyuan_helper, items, list, cfg, progress>>

----------------------------------------------------------------------------
(* MainWindow: the handlers the main thread runs, one at a time            *)

\* mutant of save_list_data: the document written holds list_items alone
save_list_data_OnlyList(rows) ==
    [state |-> "ok", doc |-> [k \in {"list_items"} |-> json_dump(rows)]]

\* save_list_data: read the document ({} when it does not parse), set
\* list_items to the rows of the list, write it back
save_list_data(rows) ==
    LET old == IF cfg.state = "ok" THEN cfg.doc ELSE <<>> IN
    [state |-> "ok",
     doc |-> [k \in (DOMAIN old) \cup {"list_items"} |->
                 IF k = "list_items" THEN json_dump(rows) ELSE old[k]]]

\* mutant of add_item: an item whose content is a diagnostic is not added
add_item_DropsPlaceholders(item) ==
    IF IsDiagnostic(item.payload.content)
    THEN UNCHANGED <<items, list, cfg>>
    ELSE /\ items' = Append(items, item)
         /\ list' = Append(list, to_dict(item))
         /\ cfg' = save_list_data(Append(list, to_dict(item)))

add_item(item) ==
    /\ items' = Append(items, item)
    /\ list' = Append(list, to_dict(item))
    /\ cfg' = save_list_data(Append(list, to_dict(item)))

set_processing_state(processing) == processing_files' = processing

_set_progress(cur, total) ==
    progress' = IF total <= 0 THEN <<0, 1>> ELSE <<cur, total>>

\* add_area.setEnabled(not processing)
AddAreaEnabled == ~processing_files

\* cancel_btn.setVisible(processing)
CancelVisible == processing_files

\* file_processed -> add_item, _append_item -> add_item
M_AddItem ==
    /\ evq # <<>>
    /\ Head(evq).sig \in {"file_processed", "_append_item"}
    /\ add_item(Head(evq).item)
    /\ evq' = Tail(evq)
    /\ UNCHANGED <<mods, win, merged, scan, xvars, rvars, processing_files, file_processor, procs,
                   siyuan_helper, sy, progress>>

\* progress_updated -> _set_progress, and the queued _set_progress calls
M_SetProgress ==
    /\ evq # <<>>
    /\ Head(evq).sig \in {"progress_updated", "_set_progress"}
    /\ _set_progress(Head(evq).cur, Head(evq).total)
    /\ evq' = Tail(evq)
    /\ UNCHANGED <<mods, win, merged, scan, xvars, rvars, processing_files, file_processor, procs,
                   siyuan_helper, sy, items, list, cfg>>

\* finished -> on_file_processing_finished
M_Finished ==
    /\ evq # <<>>
    /\ Head(evq).sig = "finished"
    /\ set_processing_state(FALSE)
    /\ _set_progress(0, 1)
    /\ evq' = Tail(evq)
    /\ UNCHANGED <<mods, win, merged, scan, xvars, rvars, file_processor, procs, siyuan_helper, sy,
                   items, list, cfg>>

RECURSIVE SumLen(_, _)
SumLen(seq, field) ==
    IF seq = <<>> THEN 0 ELSE Len(Head(seq)[field]) + SumLen(Tail(seq), field)

\* what is left of the run's budget of submitted paths and ids
Budget == MaxSubmitted - SumLen(procs, "file_paths") - SumLen(sy, "ids")

\* on_files_dropped(file_paths); yes is the answer to the question asked for
\* more than 100 paths
on_files_dropped(paths, yes) ==
    IF processing_files \/ paths = <<>> \/ (Len(paths) > 100 /\ ~yes)
    THEN UNCHANGED <<processing_files, file_processor, procs>>
    ELSE /\ set_processing_state(TRUE)
         /\ procs' = Append(procs, NewFileProcessor(paths))
         /\ file_processor' = Len(procs) + 1

\* files are dropped on the add area
U_FilesDropped ==
    /\ AddAreaEnabled
    /\ Budget > 0
    /\ \E paths \in DropLists(Budget), yes \in BOOLEAN : on_files_dropped(paths, yes)
    /\ UNCHANGED <<mods, win, merged, scan, xvars, rvars, siyuan_helper, sy, evq, items, list, cfg, progress>>

\* on_cancel_processing
U_Cancel ==
    /\ CancelVisible
    /\ IF file_processor # 0
       THEN procs' = [procs EXCEPT ![file_processor]._cancelled = TRUE]
       ELSE procs' = procs
    /\ set_processing_state(FALSE)
    /\ _set_progress(0, 1)
    /\ UNCHANGED <<mods, win, merged, scan, xvars, rvars, file_processor, siyuan_helper, sy, evq,
                   items, list, cfg>>

\* on_note_ids_submitted: _check_siyuan_available, _fetch_siyuan_ids_blocking
U_NoteIds ==
    /\ AddAreaEnabled
    /\ Budget > 0
    /\ \E ids \in IdLists(Budget) :
          IF ~siyuan_helper
          THEN sy' = sy
          ELSE sy' = Append(sy, [ids |-> ids, pc |-> "loop", idx |-> 1, appended |-> <<>>])
    /\ UNCHANGED <<mods, win, merged, scan, xvars, rvars, processing_files, file_processor, procs,
                   siyuan_helper, evq, items, list, cfg, progress>>

----------------------------------------------------------------------------
(* The ingestion engines together.  read_text_files_by_paths has no caller *)
(* in the application: a run either calls it or drives the window.         *)

AppQuiet == procs = <<>> /\ sy = <<>>

InitIngest ==
    /\ mods = [WIN32_AVAILABLE |-> FALSE, SUBPROCESS_AVAILABLE |-> TRUE,
               docx |-> TRUE, openpyxl |-> TRUE, xlrd |-> TRUE]
    /\ ExtractIdle
    /\ PoolIdle
    /\ AppIdle
    /\ ScanIdle
    /\ siyuan_helper \in BOOLEAN

NextIngest ==
    \/ (AppQuiet /\ R_Call)
    \/ \E i \in Tasks : R_Start(i)
    \/ \E i \in Tasks : R_Finish(i)
    \/ \E i \in Tasks : R_Yield(i)
    \/ R_Return
    \/ (rpc = "idle" /\ U_FilesDropped)
    \/ (rpc = "idle" /\ U_NoteIds)
    \/ U_Cancel
    \/ \E b \in DOMAIN procs : W_Check(b)
    \/ \E b \in DOMAIN procs : W_Start(b)
    \/ \E b \in DOMAIN procs : W_Complete(b)
    \/ \E r \in DOMAIN sy : S_Fetch(r)
    \/ \E r \in DOMAIN sy : S_Return(r)
    \/ M_AddItem
    \/ M_SetProgress
    \/ M_Finished

SpecIngest == InitIngest /\ [][NextIngest]_vars

\* Scheduling: a started thread keeps running (the worker of every batch and
\* of every remote fetch), and the event loop of the main thread delivers the
\* queued signals.
WorkerStep(b) ==
    b \in DOMAIN procs /\ (W_Check(b) \/ W_Start(b) \/ W_Complete(b))

RemoteStep(r) ==
    r \in DOMAIN sy /\ (S_Fetch(r) \/ S_Return(r))

EventLoop == M_AddItem \/ M_SetProgress \/ M_Finished

SpecIngestFair ==
    /\ SpecIngest
    /\ \A b \in 1..MaxSubmitted : WF_vars(WorkerStep(b))
    /\ \A r \in 1..MaxSubmitted : WF_vars(RemoteStep(r))
    /\ WF_vars(EventLoop)

----------------------------------------------------------------------------
(* search_text_files_recursive, one step per directory os.walk yields and  *)
(* per file name of it, and on_folder_selected, which calls it and hands   *)
(* the paths to on_files_dropped.  A tree is its directories in the order  *)
(* of a top-down walk, each with its name, its parent (0 for the root) and *)
(* its files in listing order; a file is its extension, what os.path       *)
(* .getsize does for it ("ok" or "OSError") and its size.  An entry of the *)
(* result is its leading characters (head) and, for a path, the place      *)
(* (d, k) of the file in the tree.                                         *)

ALLOWED_TEXT_EXTS ==
    {".txt", ".md", ".py", ".java", ".c", ".h", ".cpp", ".hpp", ".js", ".ts",
     ".json", ".yml", ".yaml", ".xml", ".html", ".css", ".go", ".rs", ".sh",
     ".bat", ".ps1", ".sql", ".ini", ".cfg", ".toml", ".log", ".csv", ".tsv",
     ".doc", ".docx", ".xls", ".xlsx"}

skip_dirs == {".git", "__pycache__", "node_modules", ".idea", "target", "build"}

max_files == 1000

\* 500 * 1024 * 1024
TotalSizeLimit == 524288000

\* mutant of lower: the extension is compared as it is written
lower_AsWritten(ext) == ext

\* str.lower on an extension
lower(ext) ==
    CASE ext = ".TXT" -> ".txt"
      [] ext = ".Md"  -> ".md"
      [] OTHER        -> ext

Small  == [ext |-> ".txt", stat |-> "ok",      size |-> 1]
Upper  == [ext |-> ".TXT", stat |-> "ok",      size |-> 3]
Image  == [ext |-> ".png", stat |-> "ok",      size |-> 5]
Huge   == [ext |-> ".txt", stat |-> "ok",      size |-> FILE_SIZE_LIMIT + 1]
Broken == [ext |-> ".txt", stat |-> "OSError", size |-> 0]
Big    == [ext |-> ".md",  stat |-> "ok",      size |-> FILE_SIZE_LIMIT]

Dir(name, parent, files) == [name |-> name, parent |-> parent, files |-> files]

Repeat(file, n) == [i \in 1..n |-> file]

\* how many more files than a ceiling admits the trees hold
MaxExtraFiles == 2

\* the number of files of FILE_SIZE_LIMIT bytes that reach TotalSizeLimit
BigFilesToLimit == TotalSizeLimit \div FILE_SIZE_LIMIT

\* a project tree with noise directories at two levels
MixedTree ==
    [dirs |-> << Dir("proj", 0, <<Small, Image, Huge, Broken, Upper>>),
                 Dir(".git", 1, <<Small>>),
                 Dir("objects", 2, <<Small>>),
                 Dir("src", 1, <<Small, Big>>),
                 Dir("build", 4, <<Small>>),
                 Dir("docs", 4, <<>>),
                 Dir("node_modules", 1, <<Big>>) >>]

\* the chosen folder is itself named like a noise directory
BuildRootTree ==
    [dirs |-> << Dir("build", 0, <<Small>>), Dir("out", 1, <<Upper>>) >>]

EmptyTree == [dirs |-> << Dir("empty", 0, <<>>) >>]

ImagesTree == [dirs |-> << Dir("images", 0, <<Image, Image>>) >>]

\* n small files in one directory, then the files of tail
FlatTree(n, tail) == [dirs |-> << Dir("flat", 0, Repeat(Small, n) \o tail) >>]

\* max_files - 1 small files in the root and n more in a subdirectory
SplitTree(n) ==
    [dirs |-> << Dir("split", 0, Repeat(Small, max_files - 1)),
                 Dir("sub", 1, Repeat(Small, n)),
                 Dir("later", 1, <<Small>>) >>]

\* n files of FILE_SIZE_LIMIT bytes, then the files of tail
HeavyTree(n, tail) == [dirs |-> << Dir("heavy", 0, Repeat(Big, n) \o tail) >>]

ScanTrees ==
    {MixedTree, BuildRootTree, EmptyTree, ImagesTree}
    \cup { FlatTree(n, tail) : n \in (max_files - 1)..(max_files + MaxExtraFiles),
                               tail \in {<<>>, <<Image>>} }
    \cup { SplitTree(n) : n \in 0..(1 + MaxExtraFiles) }
    \cup { HeavyTree(n, tail) : n \in (BigFilesToLimit - 1)..(BigFilesToLimit + MaxExtraFiles),
                                tail \in {<<>>, <<Small>>} }
    \cup { HeavyTree(BigFilesToLimit + 1, Repeat(Small, max_files)) }

\* the subdirectories of d, in listing order
Children(tree, d) ==
    SelectSeq([i \in 1..Len(tree.dirs) |-> i], LAMBDA c : tree.dirs[c].parent = d)

PathEntry(d, k) == [head |-> <<"/">>, d |-> d, k |-> k]

CountWarning == [head |-> <<"[", "warning:", "max_files">>, d |-> 0, k |-> 0]

SizeWarning == [head |-> <<"[", "warning:", "total_size">>, d |-> 0, k |-> 0]

\* mutant of IsWarning: no entry is taken for a warning
IsWarning_Never(e) == FALSE

\* f.startswith("[warning:")
IsWarning(e) == StartsWith(e.head, <<"[", "warning:">>)

\* mutant of Pruned: no directory is pruned
Pruned_Never(name) == FALSE

\* d not in skip_dirs, negated
Pruned(name) == name \in skip_dirs

\* mutant of CountReached: one file more is let in
CountReached_Late(count) == count > max_files

\* file_count >= max_files
CountReached(count) == count >= max_files

\* mutant of SizeExceeded: the total size is not limited
SizeExceeded_Never(total) == FALSE

\* total_size > 500 * 1024 * 1024
SizeExceeded(total) == total > TotalSizeLimit

\* on_folder_selected up to the call of search_text_files_recursive, and the
\* first lines of that function
F_Select ==
    /\ scan.pc \in {"idle", "done"}
    /\ IF processing_files
       THEN scan' = scan
       ELSE \E t \in ScanTrees :
               scan' = [pc |-> "walk", tree |-> t, todo |-> <<1>>, d |-> 0, k |-> 0,
                        result |-> <<>>, total_size |-> 0, file_count |-> 0,
                        visited |-> {}]
    /\ UNCHANGED <<mods, win, merged, xvars, rvars, avars>>

\* os.walk yields the next directory; dirnames[:] keeps the subdirectories
\* that are not in skip_dirs, and the walk descends into those only
D_NextDir ==
    /\ scan.pc = "walk"
    /\ scan.todo # <<>>
    /\ LET d == Head(scan.todo)
           kept == SelectSeq(Children(scan.tree, d),
                             LAMBDA c : ~Pruned(scan.tree.dirs[c].name))
       IN  scan' = [scan EXCEPT !.pc = "files", !.d = d, !.k = 1,
                                !.todo = kept \o Tail(scan.todo),
                                !.visited = scan.visited \cup {d}]
    /\ UNCHANGED <<mods, win, merged, xvars, rvars, avars>>

\* the body of "for fn in filenames" for the next file name
D_File ==
    /\ scan.pc = "files"
    /\ scan.k <= Len(scan.tree.dirs[scan.d].files)
    /\ LET f == scan.tree.dirs[scan.d].files[scan.k]
           next == [scan EXCEPT !.k = scan.k + 1]
           total == scan.total_size + f.size
       IN  IF CountReached(scan.file_count)
           THEN scan' = [scan EXCEPT !.pc = "returned",
                                     !.result = Append(scan.result, CountWarning)]
           ELSE IF lower(f.ext) \notin ALLOWED_TEXT_EXTS THEN scan' = next
           ELSE IF f.stat # "ok" THEN scan' = next
           ELSE IF TooLarge(f.size) THEN scan' = next
           ELSE IF SizeExceeded(total)
           THEN scan' = [scan EXCEPT !.pc = "returned", !.total_size = total,
                                     !.result = Append(scan.result, SizeWarning)]
           ELSE scan' = [next EXCEPT !.total_size = total,
                                     !.result = Append(scan.result, PathEntry(scan.d, scan.k)),
                                     !.file_count = scan.file_count + 1]
    /\ UNCHANGED <<mods, win, merged, xvars, rvars, avars>>

\* the file names of the directory are used up
D_EndDir ==
    /\ scan.pc = "files"
    /\ scan.k > Len(scan.tree.dirs[scan.d].files)
    /\ scan' = [scan EXCEPT !.pc = "walk"]
    /\ UNCHANGED <<mods, win, merged, xvars, rvars, avars>>

\* os.walk is used up: return result
D_Return ==
    /\ scan.pc = "walk"
    /\ scan.todo = <<>>
    /\ scan' = [scan EXCEPT !.pc = "returned"]
    /\ UNCHANGED <<mods, win, merged, xvars, rvars, avars>>

\* [f for f in files if not f.startswith("[warning:")]
RealPaths(files) == SelectSeq(files, LAMBDA e : ~IsWarning(e))

\* on_folder_selected from the return of search_text_files_recursive on; yes
\* and many are the answers to its question and to that of on_files_dropped
F_Dispatch ==
    /\ scan.pc = "returned"
    /\ scan' = [scan EXCEPT !.pc = "done"]
    /\ \E yes \in BOOLEAN, many \in BOOLEAN :
          IF scan.result = <<>> \/ Len(RealPaths(scan.result)) = 0 \/ ~yes
          THEN UNCHANGED <<processing_files, file_processor, procs>>
          ELSE on_files_dropped(RealPaths(scan.result), many)
    /\ UNCHANGED <<mods, win, merged, xvars, rvars, siyuan_helper, sy, evq, items, list, cfg, progress>>

InitScan ==
    /\ mods = [WIN32_AVAILABLE |-> FALSE, SUBPROCESS_AVAILABLE |-> TRUE,
               docx |-> TRUE, openpyxl |-> TRUE, xlrd |-> TRUE]
    /\ ExtractIdle
    /\ PoolIdle
    /\ AppIdle
    /\ ScanIdle
    /\ siyuan_helper = FALSE

NextScan ==
    \/ F_Select
    \/ D_NextDir
    \/ D_File
    \/ D_EndDir
    \/ D_Return
    \/ F_Dispatch

SpecScan == InitScan /\ [][NextScan]_vars

----------------------------------------------------------------------------
(* The collection: MainWindow.__init__ with load_list_data, the add area's *)
(* manual text, the list widget's menu and drag, on_clear_list,            *)
(* on_merge_and_copy and closeEvent.                                       *)

MaxRecords == 3     \* records under list_items when the program starts

MaxUuid == 1        \* manual items added over a behaviour

HELLO == <<"hello">>
WORLD == <<"world">>

\* the id of a record a former run saved
DocId(n) == NewId("doc", 0, n)

\* the records a configuration document can hold under list_items: items the
\* program saves, an item with an empty payload, a record without "_id", and
\* a manual item whose text is blank
Shapes ==
    << [kind |-> "manual", payload |-> [text |-> HELLO], _id |-> DocId(1)],
       [kind |-> "text_file",
        payload |-> [file_path |-> 1, content |-> WORLD, size |-> 5,
                     display_name |-> WORLD],
        _id |-> DocId(2)],
       [kind |-> "text_file",
        payload |-> [file_path |-> 2, content |-> EMPTY, size |-> 0,
                     display_name |-> <<"2">>],
        _id |-> DocId(3)],
       [kind |-> "text_file", payload |-> <<>>, _id |-> DocId(4)],
       [kind |-> "folder",
        payload |-> [folder_path |-> 3,
                     files |-> << [file_path |-> 4, content |-> WORLD],
                                  [file_path |-> 5, content |-> BLANK] >>],
        _id |-> DocId(5)],
       [kind |-> "siyuan_id", payload |-> [id |-> 1, title |-> <<"hPath">>]],
       [kind |-> "siyuan_id",
        payload |-> [id |-> 1, title |-> <<"hPath">>, content |-> BLANK],
        _id |-> DocId(7)],
       [kind |-> "manual", payload |-> [text |-> BLANK], _id |-> DocId(8)],
       [kind |-> "note", payload |-> [text |-> HELLO], _id |-> DocId(9)] >>

\* the lists of records a document holds: up to maxlen consecutive shapes
RecordLists(maxlen) ==
    {<<>>} \cup { [i \in 1..k |-> Shapes[((s + i - 2) % Len(Shapes)) + 1]] :
                      s \in 1..Len(Shapes), k \in 1..maxlen }

\* a document edited by hand: two records under one id
TwoUnderOneId ==
    << Shapes[1], [kind |-> "text_file",
                   payload |-> [file_path |-> 1, content |-> WORLD, size |-> 5,
                                display_name |-> WORLD],
                   _id |-> DocId(1)] >>

\* config.json before the program starts: absent, not JSON, without
\* list_items, or with a list of records
Documents ==
    {[state |-> "absent"], [state |-> "malformed"],
     [state |-> "ok", doc |-> [k \in {"manual_prompts"} |-> <<>>]]}
    \cup { [state |-> "ok",
            doc |-> [k \in {"manual_prompts", "list_items"} |->
                        IF k = "list_items" THEN json_dump(rs) ELSE <<>>]] :
           rs \in RecordLists(MaxRecords) \cup {TwoUnderOneId} }

\* SavedPromptsManager._ensure_file
_ensure_file(c) ==
    IF c.state = "absent"
    THEN [state |-> "ok", doc |-> [k \in {"manual_prompts"} |-> <<>>]]
    ELSE c

\* SavedPromptsManager._load: the whole document, manual_prompts added when
\* it has none; the defaults when the file cannot be parsed
_load(c) ==
    IF c.state = "ok"
    THEN [k \in (DOMAIN c.doc) \cup {"manual_prompts"} |->
             IF k \in DOMAIN c.doc THEN c.doc[k] ELSE <<>>]
    ELSE NoPrompts

\* SavedPromptsManager._save: json.dump(self._data) over the file
_save(data) == [state |-> "ok", doc |-> data]

\* mutant of add_or_update_prompt: the prompt is appended whether or not
\* its text is saved already
add_or_update_prompt_Appends(data, text, note, now) ==
    [data EXCEPT !["manual_prompts"] =
        Append(@, [text |-> text, note |-> Strip(note), created |-> now, updated |-> now])]

\* SavedPromptsManager.add_or_update_prompt on _data, at the time now
add_or_update_prompt(data, text, note, now) ==
    LET prompts == data["manual_prompts"]
        same == { i \in DOMAIN prompts : prompts[i].text = text }
    IN  IF same # {}
        THEN LET i == CHOOSE i \in same : \A j \in same : i <= j IN
             [data EXCEPT !["manual_prompts"] =
                 [@ EXCEPT ![i] = [@ EXCEPT !.updated = now, !.note = Strip(note)]]]
        ELSE [data EXCEPT !["manual_prompts"] =
                 Append(@, [text |-> text, note |-> Strip(note),
                            created |-> now, updated |-> now])]

\* SavedPromptsManager.delete_prompt on _data
delete_prompt(data, text) ==
    [data EXCEPT !["manual_prompts"] = SelectSeq(@, LAMBDA q : q.text # text)]

\* the keys SettingsDialog.accept writes
ApiKeys == {"api_base_url", "api_token", "timeout"}

\* SettingsDialog.accept: the document read, the three keys set, written
accept(c, url, token) ==
    LET old == IF c.state = "ok" THEN c.doc ELSE <<>> IN
    [state |-> "ok",
     doc |-> [k \in (DOMAIN old) \cup ApiKeys |->
                 CASE k = "api_base_url" -> url
                   [] k = "api_token" -> token
                   [] k = "timeout" -> <<"8">>
                   [] OTHER -> old[k]]]

\* MainWindow.load_config and SiYuanHelper.__init__, then what
\* _check_siyuan_available tests: both api_base_url and api_token are set
load_config(c) ==
    LET d == IF c.state = "ok" THEN c.doc ELSE <<>> IN
    Get(d, "api_base_url", EMPTY) # EMPTY /\ Get(d, "api_token", EMPTY) # EMPTY

\* mutant of AfterBadRecord: the first record that raises ends the loop
AfterBadRecord_Break(rest) == <<>>

\* except Exception: continue
AfterBadRecord(rest) == rest

\* the for loop of load_list_data over the records from the i-th on: acc
\* holds self.items and the rows of self.list
RECURSIVE RestoreFrom(_, _, _)
RestoreFrom(records, i, acc) ==
    IF i > Len(records) THEN acc
    ELSE LET made == from_dict(records[i], NewId("restore", 0, i)) IN
         IF ~made.ok
         THEN RestoreFrom(AfterBadRecord(records), i + 1, acc)
         ELSE LET kept == [acc EXCEPT !.items = Append(@, made.item)] IN
              IF ~display_label(made.item).ok
              THEN RestoreFrom(AfterBadRecord(records), i + 1, kept)
              ELSE RestoreFrom(records, i + 1,
                               [kept EXCEPT !.list = Append(@, to_dict(made.item))])

\* load_list_data on a fresh window over the document c
load_list_data(c) ==
    IF c.state # "ok" \/ "list_items" \notin DOMAIN c.doc
    THEN [items |-> <<>>, list |-> <<>>]
    ELSE RestoreFrom(json_load(c.doc.list_items), 1, [items |-> <<>>, list |-> <<>>])

\* collect_items_from_list over the rows of the list
collect_items_from_list(rows) ==
    [i \in DOMAIN rows |-> from_dict(rows[i], NewId("collect", 0, i)).item]

\* on_list_item_moved, the slot of itemMoved and itemDeleted, once the list
\* holds rows
on_list_item_moved(rows) ==
    /\ list' = rows
    /\ items' = collect_items_from_list(rows)
    /\ cfg' = save_list_data(rows)

\* the rows without those at the positions of sel
WithoutRows(rows, sel) ==
    LET keep(i) == i \notin sel IN
    [j \in 1..(Len(rows) - Cardinality(sel \cap DOMAIN rows)) |->
        rows[CHOOSE i \in DOMAIN rows :
               /\ keep(i)
               /\ Cardinality({h \in 1..i : keep(h)}) = j]]

\* QListWidget.insertItem(at - 1, row): rows and at count from 1 here
InsertRow(rows, at, row) ==
    SubSeq(rows, 1, at - 1) \o <<row>> \o SubSeq(rows, at, Len(rows))

\* mutant of MoveRow: the row and the one at the target change places
MoveRow_Exchange(rows, from, to) ==
    [rows EXCEPT ![from] = rows[to], ![to] = rows[from]]

\* mutant of MoveRow: the row is inserted and the one it came from is left
MoveRow_KeepsSource(rows, from, to) == InsertRow(rows, to, rows[from])

\* insertItem(to, takeItem(from))
MoveRow(rows, from, to) == InsertRow(WithoutRows(rows, {from}), to, rows[from])

\* MainWindow.__init__ at the start of the program: SavedPromptsManager with
\* _ensure_file and _load, load_config, then load_list_data into the empty
\* items and list.  A behaviour follows one run of the program, from its
\* start to closeEvent.
A_Launch ==
    /\ ~win.started
    /\ LET c == _ensure_file(cfg)
           restored == load_list_data(c)
       IN  /\ cfg' = c
           /\ items' = restored.items
           /\ list' = restored.list
           /\ win' = [win EXCEPT !.started = TRUE, !.open = TRUE, !._data = _load(c)]
           /\ siyuan_helper' = load_config(c)
    /\ merged' = NoMerge
    /\ UNCHANGED <<mods, scan, xvars, rvars, processing_files, file_processor,
                   procs, sy, evq, progress>>

\* _on_add_manual and on_manual_submitted: the stripped text is not empty
A_Manual ==
    /\ win.open
    /\ AddAreaEnabled
    /\ win.uuid < MaxUuid
    /\ \E text \in {HELLO, WORLD} :
          add_item(DataItem("manual", [text |-> text], NewId("manual", 0, win.uuid + 1)))
    /\ win' = [win EXCEPT !.uuid = @ + 1]
    /\ merged' = NoMerge
    /\ UNCHANGED <<mods, scan, xvars, rvars, processing_files, file_processor,
                   procs, siyuan_helper, sy, evq, progress>>

\* _on_context_menu, act_del on the selected rows; yes is the answer to the
\* question
A_Delete ==
    /\ win.open
    /\ \E sel \in (SUBSET DOMAIN list) \ {{}}, yes \in BOOLEAN :
          IF yes THEN on_list_item_moved(WithoutRows(list, sel))
          ELSE UNCHANGED <<items, list, cfg>>
    /\ merged' = NoMerge
    /\ UNCHANGED <<mods, win, scan, xvars, rvars, processing_files,
                   file_processor, procs, siyuan_helper, sy, evq, progress>>

\* _on_context_menu, act_up on the row under the pointer
A_MoveUp ==
    /\ win.open
    /\ \E row \in DOMAIN list :
          IF row > 1 THEN on_list_item_moved(MoveRow(list, row, row - 1))
          ELSE UNCHANGED <<items, list, cfg>>
    /\ merged' = NoMerge
    /\ UNCHANGED <<mods, win, scan, xvars, rvars, processing_files,
                   file_processor, procs, siyuan_helper, sy, evq, progress>>

\* _on_context_menu, act_down
A_MoveDown ==
    /\ win.open
    /\ \E row \in DOMAIN list :
          IF row < Len(list) THEN on_list_item_moved(MoveRow(list, row, row + 1))
          ELSE UNCHANGED <<items, list, cfg>>
    /\ merged' = NoMerge
    /\ UNCHANGED <<mods, win, scan, xvars, rvars, processing_files,
                   file_processor, procs, siyuan_helper, sy, evq, progress>>

\* _on_context_menu, act_top
A_MoveTop ==
    /\ win.open
    /\ \E row \in DOMAIN list : on_list_item_moved(MoveRow(list, row, 1))
    /\ merged' = NoMerge
    /\ UNCHANGED <<mods, win, scan, xvars, rvars, processing_files,
                   file_processor, procs, siyuan_helper, sy, evq, progress>>

\* _on_context_menu, act_bottom
A_MoveBottom ==
    /\ win.open
    /\ \E row \in DOMAIN list : on_list_item_moved(MoveRow(list, row, Len(list)))
    /\ merged' = NoMerge
    /\ UNCHANGED <<mods, win, scan, xvars, rvars, processing_files,
                   file_processor, procs, siyuan_helper, sy, evq, progress>>

\* dropEvent: a row dragged to another position of the list
A_Drop ==
    /\ win.open
    /\ \E row \in DOMAIN list, to \in DOMAIN list :
          on_list_item_moved(MoveRow(list, row, to))
    /\ merged' = NoMerge
    /\ UNCHANGED <<mods, win, scan, xvars, rvars, processing_files,
                   file_processor, procs, siyuan_helper, sy, evq, progress>>

\* on_clear_list
A_Clear ==
    /\ win.open
    /\ \E yes \in BOOLEAN :
          IF list = <<>> \/ ~yes
          THEN UNCHANGED <<items, list, cfg>>
          ELSE /\ items' = <<>>
               /\ list' = <<>>
               /\ cfg' = save_list_data(<<>>)
    /\ merged' = NoMerge
    /\ UNCHANGED <<mods, win, scan, xvars, rvars, processing_files,
                   file_processor, procs, siyuan_helper, sy, evq, progress>>

\* closeEvent
A_Close ==
    /\ win.open
    /\ cfg' = save_list_data(list)
    /\ win' = [win EXCEPT !.open = FALSE]
    /\ merged' = NoMerge
    /\ UNCHANGED <<mods, scan, xvars, rvars, processing_files, file_processor,
                   procs, siyuan_helper, sy, evq, items, list, progress>>

\* sep = "\n" + "-" * 80 + "\n"
sep == <<"\n", "--------", "\n">>

\* "".join(lines)
RECURSIVE Join(_)
Join(lines) == IF lines = <<>> THEN <<>> ELSE Head(lines) \o Join(Tail(lines))

\* a header line between the brackets, with the text below it if any
Block(header, body) ==
    IF body = EMPTY THEN <<"[[">> \o header \o <<"]]", "\n">>
    ELSE <<"[[">> \o header \o <<"]]", "\n">> \o body \o <<"\n">>

\* the name a path is rendered with
NameOf(d, k, default) ==
    IF k \in DOMAIN d THEN basename(d[k]) ELSE default

\* the entry of a file of a folder item
SubBlock(file_info) ==
    LET file_name == NameOf(file_info, "file_path", "unknown_file")
        file_content == Strip(Get(file_info, "content", EMPTY))
    IN  IF file_content # EMPTY
        THEN <<"|-", file_name, "\n">> \o file_content \o <<"\n">>
        ELSE <<"|-", file_name, "(empty_content)", "\n">>

\* mutant of TextFileBlock: a file without content gives no entry
TextFileBlock_SkipsEmpty(payload) ==
    LET content == Strip(Get(payload, "content", EMPTY)) IN
    IF content # EMPTY
    THEN << Block(<<NameOf(payload, "file_path", "unknown_file")>>, content) >>
    ELSE <<>>

\* the text_file branch
TextFileBlock(payload) ==
    LET file_name == NameOf(payload, "file_path", "unknown_file")
        content == Strip(Get(payload, "content", EMPTY))
    IN  IF content # EMPTY
        THEN << Block(<<file_name>>, content) >>
        ELSE << Block(<<file_name, "(empty_content)">>, EMPTY) >>

\* the entries one pass of the loop appends for an item with a payload,
\* the divider apart
Render(item) ==
    CASE item.kind = "manual" ->
           LET text == Strip(Get(item.payload, "text", EMPTY)) IN
           IF text # EMPTY THEN << Block(<<"manual_prompt">>, text) >>
           ELSE << Block(<<"manual_prompt", "(empty)">>, EMPTY) >>
      [] item.kind = "text_file" -> TextFileBlock(item.payload)
      [] item.kind \in {"siyuan_id", "siyuan_multi_id"} ->
           LET title == Strip(Get(item.payload, "title", <<"untitled">>))
               doc_id == NameOf(item.payload, "id", "")
               content == Strip(Get(item.payload, "content", EMPTY))
           IN  IF content # EMPTY THEN << Block(title \o <<doc_id>>, content) >>
               ELSE << Block(title \o <<doc_id, "(empty_content)">>, EMPTY) >>
      [] item.kind = "folder" ->
           LET files == Get(item.payload, "files", <<>>) IN
           << Block(<<"folder:", NameOf(item.payload, "folder_path", "unknown_folder"),
                      ToString(Len(files))>>, EMPTY) >>
           \o [i \in DOMAIN files |-> SubBlock(files[i])]
      [] OTHER -> << Block(<<"unknown_kind:", item.kind>>, EMPTY) >>

InvalidItem == <<"[[", "invalid_item", "]]", "\n">>

\* the for loop of on_merge_and_copy from the idx-th item on
RECURSIVE MergeFrom(_, _, _)
MergeFrom(its, idx, merged_lines) ==
    IF idx > Len(its) THEN merged_lines
    ELSE IF DOMAIN its[idx].payload = {}
         THEN MergeFrom(its, idx + 1, Append(merged_lines, InvalidItem))
         ELSE LET rendered == merged_lines \o Render(its[idx]) IN
              MergeFrom(its, idx + 1,
                        IF idx < Len(its) THEN Append(rendered, sep) ELSE rendered)

\* on_merge_and_copy: clipboard tells whether clipboard.setText was called
A_Merge ==
    /\ win.open
    /\ LET its == collect_items_from_list(list) IN
       IF its = <<>> THEN merged' = NoMerge
       ELSE LET merged_lines == MergeFrom(its, 1, <<>>)
                merged_text == Join(merged_lines)
            IN  merged' = [merged_lines |-> merged_lines, text |-> merged_text,
                           clipboard |-> Strip(merged_text) # EMPTY]
    /\ UNCHANGED <<mods, win, scan, xvars, rvars, avars>>

InitStore ==
    /\ mods = [WIN32_AVAILABLE |-> FALSE, SUBPROCESS_AVAILABLE |-> TRUE,
               docx |-> TRUE, openpyxl |-> TRUE, xlrd |-> TRUE]
    /\ ExtractIdle
    /\ PoolIdle
    /\ ScanIdle
    /\ processing_files = FALSE
    /\ file_processor = 0
    /\ procs = <<>>
    /\ siyuan_helper = FALSE
    /\ sy = <<>>
    /\ evq = <<>>
    /\ progress = <<0, 100>>
    /\ items = <<>>
    /\ list = <<>>
    /\ cfg \in Documents
    /\ win = [started |-> FALSE, open |-> FALSE, uuid |-> 0, _data |-> NoPrompts, now |-> 0,
              menu |-> NoMenu]
    /\ merged = NoMerge

NextStore ==
    \/ A_Launch
    \/ A_Manual
    \/ A_Delete
    \/ A_MoveUp
    \/ A_MoveDown
    \/ A_MoveTop
    \/ A_MoveBottom
    \/ A_Drop
    \/ A_Clear
    \/ A_Merge
    \/ A_Close

SpecStore == InitStore /\ [][NextStore]_vars

\* the window with the moves of the context menu alone: the list is
\* restored, items are added to it, and rows are moved
NextMoves ==
    \/ A_Launch
    \/ A_Manual
    \/ A_MoveUp
    \/ A_MoveDown
    \/ A_MoveTop
    \/ A_MoveBottom

SpecMoves == InitStore /\ [][NextMoves]_vars

----------------------------------------------------------------------------
(* The configuration document shared by the saved prompts, the settings    *)
(* dialog and the list: AddArea._on_save_prompt and _on_delete_saved,      *)
(* MainWindow.on_settings, and the handlers of the collection that save.   *)

\* ticks of the clock over a behaviour: each save of a prompt, each context
\* menu and each drag of the list happens at a later time
MaxClock == 2

\* a prompt saved by a former run
SavedPrompt(text, note) == [text |-> text, note |-> note, created |-> 0, updated |-> 0]

URL == <<"http://127.0.0.1:6806">>
TOKEN == <<"token">>

\* a document with the prompts p ("none" for no manual_prompts key), with
\* list_items if l and with the API settings if a
MakeDoc(p, l, a) ==
    [k \in (IF p = "none" THEN {} ELSE {"manual_prompts"})
           \cup (IF l THEN {"list_items"} ELSE {})
           \cup (IF a THEN ApiKeys ELSE {}) |->
        CASE k = "manual_prompts" ->
               IF p = "one" THEN <<SavedPrompt(HELLO, <<"greeting">>)>> ELSE <<>>
          [] k = "list_items" -> json_dump(<<Shapes[2]>>)
          [] k = "api_base_url" -> URL
          [] k = "api_token" -> TOKEN
          [] k = "timeout" -> <<"8">>]

\* config.json before the program starts: absent, not JSON, or a document
\* with or without its prompts, its list and its API settings
ConfigDocuments ==
    {[state |-> "absent"], [state |-> "malformed"]}
    \cup { [state |-> "ok", doc |-> MakeDoc(p, l, a)] :
             p \in {"none", "empty", "one"}, l \in BOOLEAN, a \in BOOLEAN }

\* the note of the saved prompt with this text, stripped, or none
existing_note(prompts, text) ==
    LET same == { i \in DOMAIN prompts : prompts[i].text = text } IN
    IF same = {} THEN EMPTY
    ELSE Strip(prompts[CHOOSE i \in same : \A j \in same : i <= j].note)

\* AddArea._on_save_prompt: the text of the editor is saved with the note
\* it had, or with the one typed into the dialog
P_SavePrompt ==
    /\ win.open
    /\ win.now < MaxClock
    /\ \E text \in {HELLO, WORLD}, typed \in {EMPTY, <<"greeting">>, <<"other">>},
          retype \in BOOLEAN :
          LET prompts == win._data["manual_prompts"]
              note == IF retype THEN Strip(typed) ELSE existing_note(prompts, text)
              data == add_or_update_prompt(win._data, text, note, win.now + 1)
          IN  /\ win' = [win EXCEPT !._data = data, !.now = @ + 1]
              /\ cfg' = _save(data)
    /\ merged' = NoMerge
    /\ UNCHANGED <<mods, scan, xvars, rvars, processing_files, file_processor,
                   procs, siyuan_helper, sy, evq, items, list, progress>>

\* AddArea._on_delete_saved: the prompt chosen in the combo box
P_DeletePrompt ==
    /\ win.open
    /\ \E i \in DOMAIN win._data["manual_prompts"], yes \in BOOLEAN :
          LET text == win._data["manual_prompts"][i].text IN
          IF text = EMPTY \/ ~yes
          THEN UNCHANGED <<win, cfg>>
          ELSE LET data == delete_prompt(win._data, text) IN
               /\ win' = [win EXCEPT !._data = data]
               /\ cfg' = _save(data)
    /\ merged' = NoMerge
    /\ UNCHANGED <<mods, scan, xvars, rvars, processing_files, file_processor,
                   procs, siyuan_helper, sy, evq, items, list, progress>>

\* MainWindow.on_settings: the dialog is accepted with a URL and a token,
\* or dismissed
G_Settings ==
    /\ win.open
    /\ \E url \in {EMPTY, URL}, token \in {EMPTY, TOKEN, <<"token2">>},
          accepted \in BOOLEAN :
          IF accepted
          THEN /\ cfg' = accept(cfg, url, token)
               /\ siyuan_helper' = (url # EMPTY /\ token # EMPTY)
          ELSE UNCHANGED <<cfg, siyuan_helper>>
    /\ merged' = NoMerge
    /\ UNCHANGED <<mods, win, scan, xvars, rvars, processing_files, file_processor,
                   procs, sy, evq, items, list, progress>>

InitConfig ==
    /\ mods = [WIN32_AVAILABLE |-> FALSE, SUBPROCESS_AVAILABLE |-> TRUE,
               docx |-> TRUE, openpyxl |-> TRUE, xlrd |-> TRUE]
    /\ ExtractIdle
    /\ PoolIdle
    /\ ScanIdle
    /\ processing_files = FALSE
    /\ file_processor = 0
    /\ procs = <<>>
    /\ siyuan_helper = FALSE
    /\ sy = <<>>
    /\ evq = <<>>
    /\ progress = <<0, 100>>
    /\ items = <<>>
    /\ list = <<>>
    /\ cfg \in ConfigDocuments
    /\ win = [started |-> FALSE, open |-> FALSE, uuid |-> 0, _data |-> NoPrompts, now |-> 0,
              menu |-> NoMenu]
    /\ merged = NoMerge

NextConfig ==
    \/ A_Launch
    \/ A_Manual
    \/ A_Clear
    \/ P_SavePrompt
    \/ P_DeletePrompt
    \/ G_Settings
    \/ A_Close

SpecConfig == InitConfig /\ [][NextConfig]_vars

----------------------------------------------------------------------------
(* ReorderListWidget._on_context_menu and dropEvent step by step, with the *)
(* events worker threads post to the main thread.  A QListWidgetItem is    *)
(* named by the _id of its record; the ids of the rows are distinct here.  *)

Ids(rows) == { rows[i]._id : i \in DOMAIN rows }

\* QListWidget.row(it), counted from 1; 0 when the item is not in the list
RowOf(rows, id) ==
    IF id \in Ids(rows) THEN CHOOSE i \in DOMAIN rows : rows[i]._id = id ELSE 0

\* the rows a former run saved
SavedRows(k) ==
    [i \in 1..k |-> to_dict(DataItem("manual", [text |-> HELLO], NewId("saved", 0, i)))]

\* mutant of InEventLoop: queued events are delivered wherever the handler is
InEventLoop_Always == TRUE

\* the main thread is in an event loop: the one of the application, or the
\* nested one of menu.exec_ or of QMessageBox.question
InEventLoop == win.menu.pc \in {"idle", "menu", "confirm"}

\* takeItem(row), the item kept for insertItem(at, ...)
TakeForInsert(row, at, now) ==
    /\ list' = WithoutRows(list, {row})
    /\ win' = [win EXCEPT !.menu.pc = "insert", !.menu.held = list[row], !.menu.at = at,
                          !.now = now]

\* customContextMenuRequested on a row: itemAt(pos), then menu.exec_
K_ContextMenu ==
    /\ win.open
    /\ win.menu.pc = "idle"
    /\ win.now < MaxClock
    /\ \E i \in DOMAIN list :
          win' = [win EXCEPT !.menu = [NoMenu EXCEPT !.pc = "menu", !.item = list[i]._id],
                             !.now = @ + 1]
    /\ UNCHANGED <<mods, merged, scan, xvars, rvars, processing_files, file_processor,
                   procs, siyuan_helper, sy, evq, items, list, cfg, progress>>

\* menu.exec_ returns act; sel is selectedItems()
K_Act ==
    /\ win.menu.pc = "menu"
    /\ \E act \in {"none", "del", "dup", "up", "down", "top", "bottom"},
          sel \in SUBSET Ids(list) :
          LET selected_items == IF sel = {} THEN {win.menu.item} ELSE sel
              row == RowOf(list, win.menu.item)
          IN  CASE act = "del" ->
                     /\ win' = [win EXCEPT !.menu.pc = "confirm",
                                           !.menu.selected = selected_items]
                     /\ list' = list
                [] act = "up" /\ row > 1 -> TakeForInsert(row, row - 1, win.now)
                [] act = "down" /\ row < Len(list) -> TakeForInsert(row, row + 1, win.now)
                [] act = "top" -> TakeForInsert(row, 1, win.now)
                [] act = "bottom" -> TakeForInsert(row, Len(list), win.now)
                [] OTHER ->
                     /\ win' = [win EXCEPT !.menu = NoMenu]
                     /\ list' = list
    /\ UNCHANGED <<mods, merged, scan, xvars, rvars, processing_files, file_processor,
                   procs, siyuan_helper, sy, evq, items, cfg, progress>>

\* QMessageBox.question returns
K_Confirm ==
    /\ win.menu.pc = "confirm"
    /\ \E yes \in BOOLEAN :
          win' = [win EXCEPT !.menu = IF yes THEN [@ EXCEPT !.pc = "taking"] ELSE NoMenu]
    /\ UNCHANGED <<mods, merged, scan, xvars, rvars, processing_files, file_processor,
                   procs, siyuan_helper, sy, evq, items, list, cfg, progress>>

\* one turn of "for it in selected_items": row = self.row(it); takeItem(row)
K_Take ==
    /\ win.menu.pc = "taking"
    /\ \E id \in win.menu.selected \cap Ids(list) :
          list' = WithoutRows(list, {RowOf(list, id)})
    /\ UNCHANGED <<mods, win, merged, scan, xvars, rvars, processing_files, file_processor,
                   procs, siyuan_helper, sy, evq, items, cfg, progress>>

\* insertItem or addItem of the item taken
K_Insert ==
    /\ win.menu.pc = "insert"
    /\ list' = InsertRow(list, win.menu.at, win.menu.held)
    /\ win' = [win EXCEPT !.menu.pc = "emit"]
    /\ UNCHANGED <<mods, merged, scan, xvars, rvars, processing_files, file_processor,
                   procs, siyuan_helper, sy, evq, items, cfg, progress>>

\* itemDeleted.emit() after the loop, itemMoved.emit() after the insert:
\* on_list_item_moved runs in place, the connection being direct
K_Emit ==
    /\ \/ win.menu.pc = "emit"
       \/ win.menu.pc = "taking" /\ win.menu.selected \cap Ids(list) = {}
    /\ on_list_item_moved(list)
    /\ win' = [win EXCEPT !.menu = NoMenu]
    /\ UNCHANGED <<mods, merged, scan, xvars, rvars, processing_files, file_processor,
                   procs, siyuan_helper, sy, evq, progress>>

\* dropEvent of an internal move: super().dropEvent(e), then itemMoved.emit()
K_Drag ==
    /\ win.open
    /\ win.menu.pc = "idle"
    /\ win.now < MaxClock
    /\ \E from \in DOMAIN list, to \in DOMAIN list :
          /\ from # to
          /\ TakeForInsert(from, to, win.now + 1)
    /\ UNCHANGED <<mods, merged, scan, xvars, rvars, processing_files, file_processor,
                   procs, siyuan_helper, sy, evq, items, cfg, progress>>

\* a worker thread emits file_processed(item): a queued call of add_item
W_Post ==
    /\ win.open
    /\ win.uuid < MaxUuid
    /\ evq' = Post(evq, << [sig |-> "file_processed",
                           item |-> DataItem("text_file",
                                             [file_path |-> 1, content |-> WORLD,
                                              size |-> 5, display_name |-> WORLD],
                                             NewId("worker", 0, win.uuid + 1))] >>)
    /\ win' = [win EXCEPT !.uuid = @ + 1]
    /\ UNCHANGED <<mods, merged, scan, xvars, rvars, processing_files, file_processor,
                   procs, siyuan_helper, sy, items, list, cfg, progress>>

\* the event loop the main thread is in delivers the queued call
K_Deliver ==
    /\ InEventLoop
    /\ M_AddItem

InitMenu ==
    /\ mods = [WIN32_AVAILABLE |-> FALSE, SUBPROCESS_AVAILABLE |-> TRUE,
               docx |-> TRUE, openpyxl |-> TRUE, xlrd |-> TRUE]
    /\ ExtractIdle
    /\ PoolIdle
    /\ ScanIdle
    /\ processing_files = FALSE
    /\ file_processor = 0
    /\ procs = <<>>
    /\ siyuan_helper = FALSE
    /\ sy = <<>>
    /\ evq = <<>>
    /\ progress = <<0, 100>>
    /\ \E k \in 1..MaxRecords :
          /\ list = SavedRows(k)
          /\ items = collect_items_from_list(SavedRows(k))
          /\ cfg = [state |-> "ok",
                    doc |-> [key \in {"manual_prompts", "list_items"} |->
                               IF key = "list_items" THEN json_dump(SavedRows(k)) ELSE <<>>]]
    /\ win = [started |-> TRUE, open |-> TRUE, uuid |-> 0, _data |-> NoPrompts, now |-> 0,
              menu |-> NoMenu]
    /\ merged = NoMerge

NextMenu ==
    \/ K_ContextMenu
    \/ K_Act
    \/ K_Confirm
    \/ K_Take
    \/ K_Insert
    \/ K_Emit
    \/ K_Drag
    \/ W_Post
    \/ K_Deliver

SpecMenu == InitMenu /\ [][NextMenu]_vars

----------------------------------------------------------------------------
(* Claims about read_text_from_any_file                                    *)

MethodIndex(m) == CHOOSE k \in 1..Len(Methods) : Methods[k] = m

DocReturned == xpc = "returned" /\ xfile.ext = ".doc"

\* the call returned the output of a method (not the installation guide)
DocAccepted == DocReturned /\ xret # install_guide

\* C1 (as claimed): read_text_from_any_file never raises to its caller, and
\* a read that failed returns a string beginning with a bracketed diagnostic.
C1_ExtractIsTotal ==
    /\ xpc # "raised"
    /\ (xpc = "returned" /\ xfile.read = "OSError") => IsDiagnostic(xret)

\* C2: the .doc methods are attempted in the fixed order win32com, antiword,
\* catdoc, unoconv, textract, python-docx; a method is attempted only after
\* every available method before it was attempted and rejected; nothing is
\* attempted after an acceptance; the text returned is the output of the
\* first accepted method.
C2_DocChainOrder ==
    /\ \A i, j \in 1..Len(xtried) :
           i < j => MethodIndex(xtried[i].m) < MethodIndex(xtried[j].m)
    /\ \A i \in 1..Len(xtried) : \A k \in 1..(MethodIndex(xtried[i].m) - 1) :
           Available(Methods[k], mods) =>
               \E h \in 1..(i - 1) : /\ xtried[h].m = Methods[k]
                                     /\ ~Accepts(xtried[h].m, xtried[h].out)
    /\ \A i \in 1..(Len(xtried) - 1) : ~Accepts(xtried[i].m, xtried[i].out)
    /\ \A i \in 1..Len(xtried) :
           Accepts(xtried[i].m, xtried[i].out) =>
               /\ i = Len(xtried)
               /\ xpc = "returned"
               /\ xret = xtried[i].out
    /\ DocAccepted =>
           /\ xtried # <<>>
           /\ Accepts(xtried[Len(xtried)].m, xtried[Len(xtried)].out)
           /\ xret = xtried[Len(xtried)].out

\* C2 witness: a later method of the chain was accepted after three earlier
\* methods had been attempted and rejected.
C2_Witness ==
    /\ DocAccepted
    /\ Len(xtried) >= 4
    /\ xtried[Len(xtried)].m = "textract"
    /\ xret = TEXT

\* C3 (as claimed): the output the chain accepts is non-empty and matches no
\* known failure prefix; a method that returns empty text is treated as failed.
C3_EmptyOutputRejected ==
    DocAccepted =>
        /\ xret # EMPTY
        /\ \A k \in 1..Len(Methods) : \A p \in RejectedPrefixes(Methods[k]) :
               ~StartsWith(xret, p)

\* C4 (as claimed): a converter call that timed out counts as failed; its
\* timeout diagnostic is never the content returned for the file.
C4_TimeoutIsFailure ==
    \A i \in 1..Len(xtried) :
        (xtried[i].m \in {"antiword", "catdoc", "unoconv"} /\ xtried[i].o = "TimeoutExpired")
            => ~(DocReturned /\ xret = xtried[i].out)

\* every one of the six methods was unavailable, or was attempted and the
\* call did not return its output
AllSixFailed ==
    \A k \in 1..Len(Methods) :
        \/ ~Available(Methods[k], mods)
        \/ \E i \in 1..Len(xtried) : /\ xtried[i].m = Methods[k]
                                     /\ xret # xtried[i].out

\* C5: for a .doc file the installation guide is returned if and only if all
\* six methods were unavailable or rejected; when a method succeeded the
\* guide is not returned.
C5_GuideIffAllFailed ==
    DocReturned =>
        /\ (xret = install_guide) <=> AllSixFailed
        /\ (\E i \in 1..Len(xtried) : Accepts(xtried[i].m, xtried[i].out))
               => xret # install_guide

\* C5 witness: the guide was returned after at least four methods were
\* attempted and rejected, python-docx among them.
C5_Witness ==
    /\ DocReturned
    /\ xret = install_guide
    /\ Len(xtried) >= 4
    /\ xtried[Len(xtried)].m = "python-docx"

----------------------------------------------------------------------------
(* Claims about the ingestion engines                                      *)

Range(seq) == {seq[i] : i \in DOMAIN seq}

Distinct(seq) == \A i, j \in DOMAIN seq : seq[i] = seq[j] => i = j

PoolExceeded == Len(file_paths) > MAX_CONCURRENT_FILES

OversizePlaceholder(path) == <<"[", "file_too_large_not_read", basename(path), "]">>

\* C7: a file whose size was read and exceeds FILE_SIZE_LIMIT gets the
\* oversize placeholder as its content and read_text_from_any_file is not
\* called for it; a file of at most FILE_SIZE_LIMIT bytes is handed to
\* read_text_from_any_file.  Both in read_single_file and in process_files.
C7_SizeCeiling ==
    /\ \A i \in Tasks :
          LET f == FS(file_paths[i])
              t == futures[i].result
          IN  (futures[i].state = "finished" /\ f.stat = "ok") =>
                 IF f.size > FILE_SIZE_LIMIT
                 THEN ~t.extracted /\ t.content = OversizePlaceholder(file_paths[i])
                 ELSE t.extracted
    /\ \A b \in DOMAIN procs : \A n \in DOMAIN procs[b].emitted :
          LET w == procs[b]
              f == FS(w.file_paths[n])
          IN  f.stat = "ok" =>
                 IF f.size > FILE_SIZE_LIMIT
                 THEN /\ n \notin w.extracted
                      /\ w.emitted[n].payload.content = OversizePlaceholder(w.file_paths[n])
                 ELSE n \in w.extracted

\* one batch has read a file of exactly FILE_SIZE_LIMIT bytes and another has
\* put the placeholder for a file one byte larger
C7_Witness ==
    \E b, c \in DOMAIN procs :
       /\ procs[b].emitted # <<>> /\ procs[c].emitted # <<>>
       /\ FS(procs[b].file_paths[1]).size = FILE_SIZE_LIMIT
       /\ 1 \in procs[b].extracted
       /\ procs[b].emitted[1].payload.content = TEXT
       /\ FS(procs[c].file_paths[1]).size = FILE_SIZE_LIMIT + 1
       /\ procs[c].emitted[1].payload.content = OversizePlaceholder(procs[c].file_paths[1])

\* C8 as stated: once _cancelled is set in a FileProcessor, it starts no
\* further extraction.
C8_NoExtractionStartsOnceCancelled ==
    [][\A b \in DOMAIN procs :
          procs[b]._cancelled => procs'[b].extracted = procs[b].extracted]_vars

\* C8, amended: _cancelled, once set, stays set; from then on no path passes
\* the test at the head of the loop, so the only extraction that can still
\* start is that of the one path that had passed the test before the flag
\* was set; and an extraction in flight ends only by returning to the loop
\* with its item emitted, whether or not the flag is set.
C8_NoDispatchOnceCancelled ==
    [][\A b \in DOMAIN procs :
          LET w == procs[b]
              v == procs'[b]
          IN  /\ w._cancelled => v._cancelled
              /\ (w._cancelled /\ w.pc = "check") =>
                     v.pc \in {"check", "done"} /\ v.idx = w.idx
              /\ (w._cancelled /\ w.pc # "start") => v.extracted = w.extracted
              /\ w.pc = "done" => v.pc = "done"
              /\ w.pc = "extract" =>
                     \/ v.pc = "extract" /\ v.idx = w.idx /\ v.emitted = w.emitted
                     \/ /\ v.pc = "check" /\ v.idx = w.idx + 1
                        /\ Len(v.emitted) = Len(w.emitted) + 1
                        /\ v.emitted[w.idx].payload.file_path = w.file_paths[w.idx]]_vars

\* a batch was cancelled while its first file was being extracted: that
\* extraction completed and its item was emitted, the second file was never
\* started, and the worker has ended
C8_Witness ==
    \E b \in DOMAIN procs :
       LET w == procs[b] IN
       /\ w._cancelled
       /\ w.pc = "done"
       /\ Len(w.file_paths) = 2
       /\ w.extracted = {1}
       /\ Len(w.emitted) = 1
       /\ w.emitted[1].payload.content = TEXT

ErrorPlaceholder == <<"[", "error_processing_file", "]">>

\* the path at position n of the list makes os.path.getsize or
\* read_text_from_any_file raise
FailsUnexpectedly(path) ==
    \/ FS(path).stat # "ok"
    \/ ~TooLarge(FS(path).size) /\ read_text_from_any_file(FS(path), mods).raised

\* C9: the worker emits one item per path, in list order; for a path whose
\* processing raised, that one item carries the path and the diagnostic
\* text; a worker that was not cancelled ends only after the last path, and
\* it ends by emitting finished once.  In read_single_file a raised error
\* becomes the returned diagnostic for that path.
C9_FailureIsOnePlaceholder ==
    /\ \A b \in DOMAIN procs :
          LET w == procs[b] IN
          /\ Len(w.emitted) = w.idx - 1
          /\ \A n \in DOMAIN w.emitted :
                /\ w.emitted[n].payload.file_path = w.file_paths[n]
                /\ w.emitted[n]._id = NewId("file", b, n)
                /\ FailsUnexpectedly(w.file_paths[n]) =>
                      /\ w.emitted[n].payload.content = ErrorPlaceholder
                      /\ w.emitted[n].payload.display_name = <<basename(w.file_paths[n])>>
          /\ (w.pc = "done" /\ ~w._cancelled) => Len(w.emitted) = Len(w.file_paths)
          /\ w.finished = IF w.pc = "done" THEN 1 ELSE 0
    /\ \A i \in Tasks :
          (futures[i].state = "finished" /\ FailsUnexpectedly(file_paths[i])) =>
             /\ futures[i].result.fp = file_paths[i]
             /\ StartsWith(futures[i].result.content, <<"[", "read_failed", basename(file_paths[i])>>)

\* a batch whose first path failed has ended, uncancelled, with the
\* placeholder for the first path and the item of the second
C9_Witness ==
    \E b \in DOMAIN procs :
       LET w == procs[b] IN
       /\ w.pc = "done" /\ ~w._cancelled
       /\ Len(w.file_paths) = 2
       /\ FailsUnexpectedly(w.file_paths[1])
       /\ w.emitted[1].payload.content = ErrorPlaceholder
       /\ Len(w.emitted) = 2

\* the positions of the collection that hold the items made for one batch
ItemsOf(src, b) ==
    {i \in DOMAIN items : items[i]._id.src = src /\ items[i]._id.batch = b}

\* the collection holds exactly one item for every path of file batch b
FileBatchAdded(b) ==
    /\ b \in DOMAIN procs
    /\ Cardinality(ItemsOf("file", b)) = Len(procs[b].file_paths)
    /\ \A n \in DOMAIN procs[b].file_paths :
          \E i \in ItemsOf("file", b) :
             /\ items[i]._id.n = n
             /\ items[i].kind = "text_file"
             /\ items[i].payload.file_path = procs[b].file_paths[n]
             /\ FailsUnexpectedly(procs[b].file_paths[n]) =>
                   items[i].payload.content = ErrorPlaceholder

FileBatchCancelled(b) == b \in DOMAIN procs /\ procs[b]._cancelled

\* the collection holds exactly one item for every id of remote batch r
RemoteBatchAdded(r) ==
    /\ r \in DOMAIN sy
    /\ Cardinality(ItemsOf("remote", r)) = Len(sy[r].ids)
    /\ \A n \in DOMAIN sy[r].ids :
          \E i \in ItemsOf("remote", r) :
             /\ items[i]._id.n = n
             /\ items[i].kind = "siyuan_id"
             /\ items[i].payload.id = sy[r].ids[n]
             /\ Strip(items[i].payload.content) # EMPTY

\* no item is added twice, and the rows of the list and the saved list_items
\* are the items of the collection
CollectionExact ==
    /\ \A i, j \in DOMAIN items : items[i]._id = items[j]._id => i = j
    /\ \A b \in DOMAIN procs :
          Cardinality(ItemsOf("file", b)) <= Len(procs[b].emitted)
    /\ \A r \in DOMAIN sy :
          Cardinality(ItemsOf("remote", r)) <= Len(sy[r].appended)
    /\ list = [i \in DOMAIN items |-> to_dict(items[i])]

\* C10: every file batch that is not cancelled and every remote batch gets,
\* in the end and from then on, exactly one item in the collection for each
\* of its K paths or ids, a failed read or a failed fetch as a placeholder
\* item; no item is added twice.
C10_EveryRequestedItemAppears ==
    /\ []CollectionExact
    /\ \A b \in 1..MaxSubmitted :
          (b \in DOMAIN procs) ~> [](FileBatchCancelled(b) \/ FileBatchAdded(b))
    /\ \A r \in 1..MaxSubmitted :
          (r \in DOMAIN sy) ~> []RemoteBatchAdded(r)

\* the collection holds the placeholder of a file batch whose only path
\* failed and the placeholder of a remote batch whose only fetch failed
C10_Witness ==
    /\ \E b \in DOMAIN procs :
          /\ ~procs[b]._cancelled
          /\ FailsUnexpectedly(procs[b].file_paths[1])
          /\ FileBatchAdded(b)
    /\ \E r \in DOMAIN sy :
          /\ RemoteBatchAdded(r)
          /\ \E i \in ItemsOf("remote", r) :
                items[i].payload.content = <<"[", "content_not_fetched", "]">>

----------------------------------------------------------------------------
(* Claims about the directory scan                                         *)

\* the places <<d, k>> of the files of a tree
Places(tree) ==
    UNION { { <<d, k>> : k \in 1..Len(tree.dirs[d].files) } : d \in 1..Len(tree.dirs) }

FileAt(tree, pl) == tree.dirs[pl[1]].files[pl[2]]

\* directory d is a noise directory met by the walk, or lies below one; the
\* root, where the walk starts, is met under no name
RECURSIVE BelowNoise(_, _)
BelowNoise(tree, d) ==
    IF tree.dirs[d].parent = 0 THEN FALSE
    ELSE tree.dirs[d].name \in skip_dirs \/ BelowNoise(tree, tree.dirs[d].parent)

\* an extension of the allow list, in whatever letter case it is written
AllowListed(ext) == ext \in ALLOWED_TEXT_EXTS \cup {".TXT", ".Md"}

\* eligible as C11 and C12 define it: an allow-listed extension and a size
\* within the per-file ceiling
Eligible(tree) ==
    { pl \in Places(tree) :
         /\ AllowListed(FileAt(tree, pl).ext)
         /\ FileAt(tree, pl).stat = "ok"
         /\ FileAt(tree, pl).size <= FILE_SIZE_LIMIT }

\* the eligible files the walk can reach
EligibleReached(tree) == { pl \in Eligible(tree) : ~BelowNoise(tree, pl[1]) }

RECURSIVE SumOver(_, _, _)
SumOver(tree, places, sizes) ==
    IF sizes = {} THEN 0
    ELSE LET sz == CHOOSE x \in sizes : TRUE
         IN  sz * Cardinality({pl \in places : FileAt(tree, pl).size = sz})
             + SumOver(tree, places, sizes \ {sz})

\* the sizes of the files at these places, added up
TotalSize(tree, places) ==
    SumOver(tree, places, {FileAt(tree, pl).size : pl \in places})

\* the positions of the result that hold a bracketed entry, not a path
Warnings == { i \in DOMAIN scan.result : StartsWith(scan.result[i].head, <<"[">>) }

\* the files whose paths the result holds
ResultPlaces ==
    { <<scan.result[i].d, scan.result[i].k>> : i \in (DOMAIN scan.result) \ Warnings }

NoWarning == Warnings = {}

\* the result is exactly these files, each once, and nothing else
ReturnsExactly(places) ==
    /\ NoWarning
    /\ Len(scan.result) = Cardinality(places)
    /\ ResultPlaces = places

\* C11 as stated: when the tree holds N files with an allow-listed extension
\* and a size within FILE_SIZE_LIMIT, N below max_files and their sizes
\* together within TotalSizeLimit, the scan returns exactly those N paths and
\* no warning.
C11_AllEligibleReturned ==
    (/\ scan.pc = "returned"
     /\ Cardinality(Eligible(scan.tree)) < max_files
     /\ TotalSize(scan.tree, Eligible(scan.tree)) <= TotalSizeLimit)
    => ReturnsExactly(Eligible(scan.tree))

\* C11, amended: the N files are the eligible files that lie below no noise
\* directory; the eligible files below a noise directory are not returned.
C11_AllReachedEligibleReturned ==
    (/\ scan.pc = "returned"
     /\ Cardinality(EligibleReached(scan.tree)) < max_files
     /\ TotalSize(scan.tree, EligibleReached(scan.tree)) <= TotalSizeLimit)
    => ReturnsExactly(EligibleReached(scan.tree))

\* a scan of max_files - 1 eligible files and one file that is not eligible
\* has returned the max_files - 1 paths
C11_Witness ==
    /\ scan.pc = "returned"
    /\ scan.tree = FlatTree(max_files - 1, <<Image>>)
    /\ Len(scan.result) = max_files - 1
    /\ NoWarning

Last(seq) == seq[Len(seq)]

\* the result is n paths followed by the one entry w
PathsThen(n, w) ==
    /\ Len(scan.result) = n + 1
    /\ \A i \in 1..n : ~StartsWith(scan.result[i].head, <<"[">>)
    /\ Last(scan.result) = w

\* C12 as stated: when the tree holds more than max_files eligible files the
\* scan returns exactly max_files paths followed by exactly one entry, the
\* warning that max_files was reached.
C12_CeilingManyThenOneMarker ==
    (scan.pc = "returned" /\ Cardinality(Eligible(scan.tree)) > max_files)
    => PathsThen(max_files, CountWarning)

\* C12, amended: when more than max_files eligible files lie below no noise
\* directory, the result ends in exactly one warning; it is max_files paths
\* and the count warning unless the sizes of the files taken so far passed
\* TotalSizeLimit first, and then it is fewer than max_files paths and the
\* size warning.  When all these files together are within TotalSizeLimit it
\* is the count warning.
C12_CeilingOrSizeFirst ==
    (scan.pc = "returned" /\ Cardinality(EligibleReached(scan.tree)) > max_files)
    => /\ \/ PathsThen(max_files, CountWarning)
          \/ /\ PathsThen(Len(scan.result) - 1, SizeWarning)
             /\ Len(scan.result) - 1 < max_files
             /\ scan.total_size > TotalSizeLimit
       /\ TotalSize(scan.tree, EligibleReached(scan.tree)) <= TotalSizeLimit
             => Last(scan.result) = CountWarning

\* a scan of max_files + 1 small files has returned max_files paths and the
\* count warning
C12_Witness ==
    /\ scan.pc = "returned"
    /\ scan.tree = FlatTree(max_files + 1, <<>>)
    /\ PathsThen(max_files, CountWarning)

\* C13: at every moment of a scan the result holds at most one warning, and
\* only as its last entry; its paths are at most max_files, each a file of
\* the tree taken once, and their sizes add up to at most TotalSizeLimit; a
\* warning is appended only by the step that returns.
C13_CeilingsHold ==
    /\ Cardinality(Warnings) <= 1
    /\ Warnings \subseteq {Len(scan.result)}
    /\ Warnings # {} => scan.pc \in {"returned", "done"}
    /\ Len(scan.result) - Cardinality(Warnings) <= max_files
    /\ Cardinality(ResultPlaces) = Len(scan.result) - Cardinality(Warnings)
    /\ ResultPlaces \subseteq Places(scan.tree)
    /\ TotalSize(scan.tree, ResultPlaces) <= TotalSizeLimit

\* a scan stopped by the total size: the paths it returned add up to exactly
\* TotalSizeLimit and the warning is the last entry
C13_Witness ==
    /\ scan.pc = "returned"
    /\ Len(scan.result) = BigFilesToLimit + 1
    /\ Last(scan.result) = SizeWarning
    /\ TotalSize(scan.tree, ResultPlaces) = TotalSizeLimit

\* C14: the walk never visits, and never queues for a visit, a directory
\* that is a noise directory or lies below one, and no file of such a
\* directory is in the result.  The noise directories are those the walk
\* meets among the subdirectories it lists; the folder the scan starts from
\* is walked under whatever name.
C14_NoiseDirectoriesPruned ==
    /\ \A d \in scan.visited : ~BelowNoise(scan.tree, d)
    /\ \A i \in DOMAIN scan.todo : ~BelowNoise(scan.tree, scan.todo[i])
    /\ \A pl \in ResultPlaces : ~BelowNoise(scan.tree, pl[1])

\* the scan of the project tree has returned: it visited the root, src and
\* src/docs and none of .git, .git/objects, src/build, node_modules
C14_Witness ==
    /\ scan.pc = "returned"
    /\ scan.tree = MixedTree
    /\ scan.visited = {1, 4, 6}
    /\ ResultPlaces = {<<1, 1>>, <<1, 5>>, <<4, 1>>, <<4, 2>>}

\* the entries of the scan result that are paths of scanned files, in order
ScannedPaths ==
    SelectSeq(scan.result, LAMBDA e : <<e.d, e.k>> \in Places(scan.tree))

\* C15: the list a file processor is created with after a directory scan
\* holds no warning marker: it is the scanned paths of the result, all of
\* them, in the order of the result.
C15_OnlyRealPathsDispatched ==
    \A b \in DOMAIN procs :
       /\ \A i \in DOMAIN procs[b].file_paths :
             ~StartsWith(procs[b].file_paths[i].head, <<"[">>)
       /\ procs[b].file_paths = ScannedPaths

\* a scan cut short by the file count was dispatched: the processor holds
\* the max_files paths and not the warning that followed them
C15_Witness ==
    /\ scan.pc = "done"
    /\ Len(procs) = 1
    /\ Len(scan.result) = max_files + 1
    /\ scan.result[max_files + 1] = CountWarning
    /\ Len(procs[1].file_paths) = max_files

----------------------------------------------------------------------------
(* Claims about the collection                                             *)

\* no two rows carry the same id
UniqueIds(rows) == \A i, j \in DOMAIN rows : rows[i]._id = rows[j]._id => i = j

\* a row of after with the id of a row of before has its kind
KindKept(before, after) ==
    \A i \in DOMAIN before, j \in DOMAIN after :
       before[i]._id = after[j]._id => before[i].kind = after[j].kind

\* the records under list_items of the document c that carry an id carry
\* different ids
RecordIdsDistinct(c) ==
    c.state = "ok" /\ "list_items" \in DOMAIN c.doc =>
       LET rs == json_load(c.doc.list_items) IN
       \A i, j \in DOMAIN rs :
          /\ "_id" \in DOMAIN rs[i]
          /\ "_id" \in DOMAIN rs[j]
          /\ rs[i]._id = rs[j]._id
          => i = j

C17_RestoreOfSnapshot ==
    /\ load_list_data(save_list_data(list)).list = list
    /\ load_list_data(save_list_data(list)).items = collect_items_from_list(list)
    /\ (~win.open /\ list # <<>>) => load_list_data(cfg).list = list

\* the window was closed with a restored and an added item, in an order
\* the user gave them, and the document holds their snapshot
C17_Witness ==
    /\ ~win.open
    /\ Len(list) = 3
    /\ list[1]._id = NewId("manual", 0, 1)
    /\ list[2]._id = DocId(2)
    /\ list[3]._id = DocId(1)
    /\ cfg.doc.list_items = json_dump(list)
    /\ load_list_data(cfg).list = list

\* the positions of the dividers among the entries a merge has appended
Dividers(lines) == { i \in DOMAIN lines : lines[i] = sep }

\* C18 as stated: a merge of the K >= 1 items of the collection appends
\* exactly K-1 dividers and none after the last item's block.
C18_OneDividerBetweenItems ==
    [][(merged' # merged /\ merged' # NoMerge) =>
          /\ Cardinality(Dividers(merged'.merged_lines)) = Len(list) - 1
          /\ Last(merged'.merged_lines) # sep]_vars

\* the entries of a merge that open an item's block, in order
ItemBlocks(lines) == SelectSeq(lines, LAMBDA l : Head(l) = "[[")

\* the block carries one of the markers of an empty content in its header
HasEmptyMarker(block) ==
    \E i \in DOMAIN block :
       /\ block[i] \in {"(empty)", "(empty_content)"}
       /\ \E j \in DOMAIN block : j > i /\ block[j] = "]]"

\* the text an item of a kind with one content carries
ContentOf(row) ==
    CASE row.kind = "manual" -> Get(row.payload, "text", EMPTY)
      [] OTHER -> Get(row.payload, "content", EMPTY)

\* the block is labelled for the row and shows its content, or the marker
BlockOf(row, block) ==
    /\ row.kind = "manual" => block[2] = "manual_prompt"
    /\ (row.kind = "text_file" /\ "file_path" \in DOMAIN row.payload)
          => block[2] = basename(row.payload.file_path)
    /\ row.kind = "folder" => block[2] = "folder:"
    /\ row.kind \in {"manual", "text_file", "siyuan_id"} =>
          IF Strip(ContentOf(row)) = EMPTY
          THEN HasEmptyMarker(block)
          ELSE /\ ~HasEmptyMarker(block)
               /\ \E i \in DOMAIN block :
                     SubSeq(block, i, i + Len(ContentOf(row)) - 1) = ContentOf(row)

\* the collection of the scenario: manual "hello", a file with "world", a
\* file without content
ThreeItems == <<Shapes[1], Shapes[2], Shapes[3]>>

WellFormed(r) ==
    /\ {"kind", "payload", "_id"} \subseteq DOMAIN r
    /\ ~(r.kind = "manual" /\ Strip(Get(r.payload, "text", EMPTY)) = EMPTY)

\* the records the document c holds under list_items
RecordsOf(c) ==
    IF c.state = "ok" /\ "list_items" \in DOMAIN c.doc
    THEN json_load(c.doc.list_items) ELSE <<>>

C29_ItemsMatchList ==
    /\ Len(items) = Len(list)
    /\ \A i \in DOMAIN items : items[i]._id = list[i]._id

\* C30 as stated: display_label gives a label for every item the window
\* holds, and the label of a manual item with blank text carries the empty
\* marker.
C30_LabelForEveryItem ==
    \A i \in DOMAIN items :
       /\ display_label(items[i]).ok
       /\ (items[i].kind = "manual"
             /\ Strip(Get(items[i].payload, "text", EMPTY)) = EMPTY)
          => \E j \in DOMAIN display_label(items[i]).label :
                display_label(items[i]).label[j] = "(empty)"

----------------------------------------------------------------------------
(* Claims about the worker threads and the processing state                *)

\* the positions in their batch of the items of remote batch r, first those
\* in the collection in its order, then those still queued for add_item
RemoteOrder(r) ==
    LET ofBatch(id) == id.src = "remote" /\ id.batch = r
        added == SelectSeq(items, LAMBDA it : ofBatch(it._id))
        queued == SelectSeq(evq, LAMBDA e : e.sig = "_append_item" /\ ofBatch(e.item._id))
    IN  [i \in DOMAIN added |-> added[i]._id.n]
        \o [i \in DOMAIN queued |-> queued[i].item._id.n]

\* C27: the worker of a remote batch has one fetch in flight at most, that
\* of the id after the last one whose fetch returned; the items it made are
\* those of the ids in submitted order, and they reach the collection in
\* that order.
C27_RemoteBatchInOrder ==
    \A r \in DOMAIN sy :
       LET w == sy[r] IN
       /\ Len(w.appended) = w.idx - 1
       /\ w.pc = "fetching" => w.idx \in DOMAIN w.ids
       /\ \A n \in DOMAIN w.appended : w.appended[n].payload.id = w.ids[n]
       /\ RemoteOrder(r) = [n \in 1..Len(w.appended) |-> n]

\* a batch of two ids is fetched and both items are in the collection, the
\* item of the first id before that of the second
C27_Witness ==
    \E r \in DOMAIN sy :
       /\ sy[r].pc = "done"
       /\ Len(sy[r].ids) = 2
       /\ \E i, j \in DOMAIN items :
             /\ i < j
             /\ items[i]._id = NewId("remote", r, 1)
             /\ items[j]._id = NewId("remote", r, 2)
             /\ items[i].payload.id = sy[r].ids[1]
             /\ items[j].payload.id = sy[r].ids[2]

\* the file-batch workers that were started and have not ended
LiveWorkers == { b \in DOMAIN procs : procs[b].pc # "done" }

\* C28 as stated: while a file-batch worker is started and not finished the
\* processing flag is true, also after a cancel; so no two workers run at a
\* time, and the completion event of one batch does not clear the flag
\* while another batch runs.
C28_FlagWhileWorkerRuns ==
    /\ LiveWorkers # {} => processing_files
    /\ Cardinality(LiveWorkers) <= 1

----------------------------------------------------------------------------
(* Claims about the saved prompts and the configuration document.          *)

\* the prompts SavedPromptsManager holds
Prompts == win._data["manual_prompts"]

NoDuplicateTexts(prompts) ==
    \A i, j \in DOMAIN prompts : i # j => prompts[i].text # prompts[j].text

\* C21: from a set of saved prompts without duplicate texts, no sequence of
\* add_or_update_prompt and delete_prompt leaves two prompts with the same
\* text; a save of a text that is saved already keeps the number of prompts,
\* the other prompts, and the creation time of that prompt, and gives it the
\* time of the save as its updated time; a save of a new text appends it.
C21_SavedTextsUnique ==
    /\ [](NoDuplicateTexts(Prompts))
    /\ [][win'.now # win.now =>
            LET old == win._data["manual_prompts"]
                new == win'._data["manual_prompts"]
            IN  \/ /\ Len(new) = Len(old)
                   /\ \E i \in DOMAIN old :
                        /\ new[i].text = old[i].text
                        /\ new[i].created = old[i].created
                        /\ new[i].updated = win'.now
                        /\ \A j \in DOMAIN old : j # i => new[j] = old[j]
                \/ /\ Len(new) = Len(old) + 1
                   /\ SubSeq(new, 1, Len(old)) = old
                   /\ \A j \in DOMAIN old : old[j].text # new[Len(new)].text
                   /\ new[Len(new)].created = win'.now
                   /\ new[Len(new)].updated = win'.now]_vars

\* two prompts are saved, one of them saved again after it was created,
\* with a note other than the one it had
C21_Witness ==
    /\ Len(Prompts) = 2
    /\ \E i \in DOMAIN Prompts :
          /\ Prompts[i].updated > Prompts[i].created
          /\ Prompts[i].note = <<"other">>

\* C22: a manual item appended with the text of a saved prompt gives that
\* prompt a later updated time, and the number of saved prompts stays as
\* it was.
C22_AppendUpdatesSavedPrompt ==
    [][win'.uuid # win.uuid =>
         LET old == win._data["manual_prompts"]
             new == win'._data["manual_prompts"]
             text == items'[Len(items')].payload.text
         IN  \A i \in DOMAIN old :
                old[i].text = text =>
                    /\ Len(new) = Len(old)
                    /\ new[i].updated > old[i].updated]_vars

\* the keys of the document other than manual_prompts
OtherKeys == {"list_items"} \cup ApiKeys

\* the value the document holds under k is the same before and after the step
KeyKept(k) ==
    /\ cfg.state = "ok" /\ k \in DOMAIN cfg.doc
         => cfg'.state = "ok" /\ k \in DOMAIN cfg'.doc /\ cfg'.doc[k] = cfg.doc[k]
    /\ cfg'.state = "ok" /\ k \in DOMAIN cfg'.doc
         => cfg.state = "ok" /\ k \in DOMAIN cfg.doc

\* C24: a save or a delete of a saved prompt, after any list changes and
\* settings changes, writes a document whose list_items and API settings
\* are the ones the document held before it.
C24_PromptSaveKeepsOtherKeys ==
    [][(win.open /\ win'._data # win._data) => \A k \in OtherKeys : KeyKept(k)]_vars

\* C25: a save of the collection changes nothing of the document but
\* list_items, and an accepted settings dialog nothing but api_base_url,
\* api_token and timeout: manual_prompts and the keys of the other one are
\* in the document written exactly as they were in the document before.
C25_OwnKeysOnly ==
    [][/\ (win.open /\ win'._data = win._data /\ (list' # list \/ ~win'.open))
            => \A k \in {"manual_prompts"} \cup ApiKeys : KeyKept(k)
       /\ (win.open /\ win' = win /\ list' = list /\ cfg' # cfg)
            => \A k \in {"manual_prompts", "list_items"} : KeyKept(k)]_vars

\* the document holds a saved prompt, the list with an item added in this
\* run, and a token accepted in the settings dialog of this run
C25_Witness ==
    /\ win.open /\ win.uuid > 0
    /\ cfg.state = "ok"
    /\ DOMAIN cfg.doc = {"manual_prompts", "list_items"} \cup ApiKeys
    /\ cfg.doc["manual_prompts"] # <<>>
    /\ Len(list) = 2
    /\ cfg.doc["list_items"] = json_dump(list)
    /\ cfg.doc["api_token"] = <<"token2">>

\* C26: at startup an absent document is created with the empty defaults;
\* a document that does not parse is left as it is, the program running on
\* its in-memory defaults, and it stays as it is while the user saves
\* nothing: the startup and the closing of the window do not write it.
C26_MalformedLeftUntilSave ==
    [][/\ (~win.started /\ win'.started /\ cfg.state = "absent")
            => cfg' = [state |-> "ok", doc |-> NoPrompts]
       /\ (~win.started /\ win'.started /\ cfg.state = "malformed")
            => /\ cfg' = cfg
               /\ win'._data = NoPrompts
               /\ list' = <<>>
               /\ ~siyuan_helper'
       /\ (win.open /\ ~win'.open /\ cfg.state = "malformed")
            => cfg' = cfg]_vars

\* C23: whenever list_items is written, it is the list of that moment, and
\* that list is the one before or the one after a whole operation: no item
\* taken for a move is missing from it, and of the rows selected for a
\* delete either all are in it or none.
C23_WholeOperationsPersisted ==
    [][cfg' # cfg =>
         /\ cfg'.state = "ok"
         /\ cfg'.doc["list_items"] = json_dump(list')
         /\ win.menu.pc # "insert"
         /\ win.menu.pc = "taking" =>
               (win.menu.selected \cap Ids(list')) \in {{}, win.menu.selected}]_vars

\* in the middle of a delete of two rows, one taken and one left, a call
\* of add_item is queued, and the document holds the list as it was
C23_Witness ==
    /\ win.menu.pc = "taking"
    /\ Cardinality(win.menu.selected) = 2
    /\ Cardinality(win.menu.selected \cap Ids(list)) = 1
    /\ evq # <<>>
    /\ cfg.doc["list_items"] # json_dump(list)

----------------------------------------------------------------------------
(* Claims about the moves of the context menu.                             *)

\* after is before with the row at from moved to the position to: that row
\* is at to, and the other rows are all there, once each, in the order
\* they had
Moved(before, after, from, to) ==
    /\ Len(after) = Len(before)
    /\ after[to] = before[from]
    /\ WithoutRows(after, {to}) = WithoutRows(before, {from})

IdsInOrder(rows) == [i \in DOMAIN rows |-> rows[i]._id]

\* C31: each of move-up, move-down, move-to-top and move-to-bottom leaves
\* the collection a permutation of what it was: the row moved is one
\* position higher, one position lower, first or last, every other row is
\* kept once and in its former order, and after a move the items carry the
\* ids of the rows, in their order; move-up of the first row and move-down
\* of the last change nothing.
C31_MovesPermute ==
    [][/\ A_MoveUp =>
            \E r \in DOMAIN list : Moved(list, list', r, IF r > 1 THEN r - 1 ELSE r)
       /\ A_MoveDown =>
            \E r \in DOMAIN list : Moved(list, list', r, IF r < Len(list) THEN r + 1 ELSE r)
       /\ A_MoveTop => \E r \in DOMAIN list : Moved(list, list', r, 1)
       /\ A_MoveBottom => \E r \in DOMAIN list : Moved(list, list', r, Len(list))
       /\ (A_MoveUp \/ A_MoveDown \/ A_MoveTop \/ A_MoveBottom) =>
            /\ items' = items \/ IdsInOrder(items') = IdsInOrder(list')
            /\ list' # list => IdsInOrder(items') = IdsInOrder(list')
            /\ \A id \in Ids(list) \cup Ids(list') :
                  Cardinality({i \in DOMAIN list' : list'[i]._id = id})
                     = Cardinality({i \in DOMAIN list : list[i]._id = id})]_vars

\* three restored rows in the reverse of the order they were saved in,
\* which takes more than one move, and the document holds them so
C31_Witness ==
    /\ win.open
    /\ IdsInOrder(list) = <<DocId(3), DocId(2), DocId(1)>>
    /\ cfg.state = "ok"
    /\ cfg.doc["list_items"] = json_dump(list)

----------------------------------------------------------------------------
(* Further claims about the scanner and the workers.                       *)

\* the result holds the warning that max_files was reached
HasCountWarning == \E i \in DOMAIN scan.result : scan.result[i] = CountWarning

\* C32: the scan appends the count warning only when an eligible file of
\* the tree is missing from the result; a tree with exactly max_files
\* eligible files, whatever other files it holds, yields those paths and no
\* warning.
C32_CountWarningOnlyWhenLeftOut ==
    scan.pc = "returned" =>
       /\ HasCountWarning => Eligible(scan.tree) \ ResultPlaces # {}
       /\ Cardinality(Eligible(scan.tree)) = max_files
             => ReturnsExactly(Eligible(scan.tree))

\* C33: in a file batch that is not cancelled, every path the worker has
\* dealt with, whether its item holds the text of the file or a
\* placeholder, is followed by a progress event with its number and the
\* number of paths of the batch, so that the counts go up by one from 1
\* and the last one before "finished" is K of K.
C33_ProgressForEveryPath ==
    [][\A b \in DOMAIN procs :
          (procs'[b].idx = procs[b].idx + 1 /\ ~procs'[b]._cancelled)
          => /\ Len(evq') >= 2
             /\ evq'[Len(evq')] = [sig |-> "progress_updated", cur |-> procs[b].idx,
                                   total |-> Len(procs[b].file_paths)]
             /\ evq'[Len(evq') - 1].sig = "file_processed"]_vars

\* the remote workers inside get_document
InFlight == { r \in DOMAIN sy : sy[r].pc = "fetching" }

\* C34: at most one fetch of a remote document is in flight at any time,
\* also when ids are submitted while an earlier batch is being fetched.
C34_OneFetchInFlight == Cardinality(InFlight) <= 1

\* the item events of file batch b that wait in the queue
QueuedItemsOf(b) ==
    { i \in DOMAIN evq : /\ evq[i].sig = "file_processed"
                         /\ evq[i].item._id.src = "file"
                         /\ evq[i].item._id.batch = b }

\* "finished" of the batch at the head of the queue is delivered
FinishedDelivered == evq # <<>> /\ Head(evq).sig = "finished" /\ evq' = Tail(evq)

\* C35: the worker of every file batch emits "finished" once, when it has
\* left its loop at the end of the paths or at a cancel, and emits no item
\* after it; every item of the batch is in the collection when "finished"
\* is delivered; the delivery leaves the processing flag false and the add
\* area enabled; and every batch started does come to its "finished".
C35_CompletionOnce ==
    /\ [](\A b \in DOMAIN procs :
            /\ procs[b].finished = IF procs[b].pc = "done" THEN 1 ELSE 0
            /\ \A i \in DOMAIN evq :
                  (evq[i].sig = "finished" /\ evq[i].b = b)
                  => /\ procs[b].pc = "done"
                     /\ \A j \in QueuedItemsOf(b) : j < i)
    /\ [][/\ \A b \in DOMAIN procs :
                procs[b].pc = "done"
                => /\ procs'[b].emitted = procs[b].emitted
                   /\ procs'[b].finished = procs[b].finished
                   /\ procs'[b].pc = "done"
          /\ FinishedDelivered
                => /\ ~processing_files'
                   /\ AddAreaEnabled'
                   /\ LET w == procs[Head(evq).b] IN
                      \A k \in DOMAIN w.emitted :
                         \E i \in DOMAIN items' : items'[i] = w.emitted[k]]_vars
    /\ \A b \in 1..MaxSubmitted :
          (b \in DOMAIN procs) ~> (b \in DOMAIN procs /\ procs[b].pc = "done" /\ QueuedItemsOf(b) = {})

\* a batch of two paths cancelled after its first: its one item is in the
\* collection, its "finished" has been delivered, the flag is false
C35_Witness ==
    /\ evq = <<>>
    /\ ~processing_files
    /\ \E b \in DOMAIN procs :
          /\ procs[b]._cancelled
          /\ procs[b].pc = "done"
          /\ Len(procs[b].file_paths) = 2
          /\ Len(procs[b].emitted) = 1
          /\ \E i \in DOMAIN items : items[i] = procs[b].emitted[1]

====
